---- MODULE Spec2Model ----
(***************************************************************************)
(* Verification model of the Urban-Mobility-Data-Explorer repository:      *)
(*   - TinyTopHeap / TopZonePicker      (bounded top-k selector)           *)
(*   - ReadZoneLookupCsv / CleanZoneInfo (zone reconciliation)             *)
(*   - RunPipelineStep / DbTasks         (staging + SQL cleaning pipeline) *)
(*   - backend dataLoader.js             (streaming CSV loader)            *)
(***************************************************************************)
EXTENDS Integers, Sequences, FiniteSets, TLC

\* ---------------------------------------------------------------------
\* Bounds
\* ---------------------------------------------------------------------
MaxK == 3
MaxN == 4
MaxScore == 3
MaxLookup == 2
MaxDbf == 2
MaxRows == 3
MaxChunk == 2
\* dataLoader.js constants, scaled down
CHUNK_SIZE == 2
ROW_LIMIT == 3

\* Number.NEGATIVE_INFINITY, below every finite score of the model
NegInf == -1000

VARIABLES
  limit,      \* TinyTopHeap.limit
  heap,       \* TinyTopHeap.heap : sequence of {item, score} nodes
  added,      \* rows handed to add() so far, in call order (history)
  out,        \* last array returned by getHighToLow()
  outValid,   \* TRUE when out is the result for the current contents
  lookupCsv,    \* data lines of taxi_zone_lookup.csv, in file order
  dbfFile,      \* records of taxi_zones.dbf, in file order
  zpc,          \* position in RunPipelineStep.runAll lines 38-40
  lookupResult, \* result of ReadZoneLookupCsv.readAndCheck: {rows, notes}
  zoneResult,   \* result of CleanZoneInfo.fixData: {zoneRows, notes, summary}
  pipeline,     \* which ingestion program runs: "staged" (run_data_job.js) or "stream" (dataLoader.js)
  spc,          \* position of RunPipelineStep.runAll
  chunkSize,    \* ReadSetup.chunkSize
  fileOrder,    \* base names of the parquet files, in findParquetFiles order
  fileIdx,      \* index of the file being streamed
  rowNum,       \* rowNum of the row loop
  batch,        \* batch of #loadOneParquetFile
  inProcess,    \* rows whose processing has started and not finished
  staging,      \* table trips_staging
  cleaned,      \* table trips_cleaned
  flagged,      \* table flagged_trips
  qlog,         \* trip entries of table quality_log
  arrived,      \* history: the raw rows handed to the program, in arrival order
  flushFailed,  \* history: some batch flush has thrown
  partialFlush, \* history: a flush threw after one of its INSERTs had been applied
  lpc,          \* position of dataLoader.loadData
  flowing,      \* csv-parse stream: readable side in flowing mode
  flushes,      \* flushBatch calls suspended at an await, each with its caller
  lRowNum,      \* rowNum of loadData
  totals,       \* totalRaw, totalDupes, totalExcluded, totalClean, totalAnomalous, totalInserted
  globalSeen,   \* globalSeen keys
  tripBatch,    \* tripBatch
  errorBatch,   \* errorBatch
  logBatch,     \* logBatch
  dbTrips,      \* table trips, in insertion order
  dbErrors,     \* rows of table error_log written by bulkInsertErrors
  dbLogs,       \* rows of table error_log written by bulkInsertQualityFlags
  inputs,       \* condition of the input files of run_data_job: lookup, dbf, parquet
  rpc,          \* position of RunPipelineStep.runAll, seen from its inputs
  rfileIdx,     \* index of the parquet file runAll is loading
  dbOps,        \* history: the DbTasks mutations runAll has made, in order
  draft,        \* which server entry point runs: "retry", "plain", "graceful", "express"
  loadEnv,      \* process.env.LOAD_DATA === 'true'
  bootPc,       \* position of start()
  attempts,     \* attempts of the retry loop
  checkOk,      \* db.query('SELECT 1') has resolved
  listening,    \* the HTTP server accepts connections
  everListened, \* history: listen() has been called
  conns,        \* connections in use
  closePc,      \* progress of the server.close() callback
  timerArmed,   \* the forced-exit timer of shutdown() is pending
  poolClosed,   \* the database pool has been ended
  exit,         \* "running", or how the process ended
  signalled,    \* history: SIGTERM or SIGINT has been delivered
  query,        \* req.query of the request
  reqPc,        \* position of the withFilters middleware
  status,       \* HTTP status of the reply, 0 before it
  handlerRan,   \* history: the route handler was invoked
  filters,      \* result of readFromQuery
  sqlParams     \* params of makeWhereSql handed to the query

heapVars == <<limit, heap, added, out, outValid>>
zoneVars == <<lookupCsv, dbfFile, zpc, lookupResult, zoneResult>>
stagedVars == <<spc, chunkSize, fileOrder, fileIdx, rowNum, batch, inProcess,
                staging, cleaned, flagged, qlog>>

histVars == <<arrived, flushFailed, partialFlush>>
loaderVars == <<lpc, flowing, flushes, lRowNum, totals, globalSeen,
                tripBatch, errorBatch, logBatch, dbTrips, dbErrors, dbLogs>>
runVars == <<inputs, rpc, rfileIdx, dbOps>>
srvVars == <<draft, loadEnv, bootPc, attempts, checkOk, listening, everListened,
             conns, closePc, timerArmed, poolClosed, exit, signalled>>
apiVars == <<query, reqPc, status, handlerRan, filters, sqlParams>>
webVars == <<srvVars, apiVars>>
tripVars == <<pipeline, stagedVars, histVars, loaderVars, runVars, webVars>>

vars == <<heapVars, zoneVars, tripVars>>

\* ---------------------------------------------------------------------
\* Component states before the component has run
\* ---------------------------------------------------------------------
HeapIdle ==
  /\ limit = 0
  /\ heap = <<>>
  /\ added = <<>>
  /\ out = <<>>
  /\ outValid = FALSE

NoResult == [rows |-> <<>>, notes |-> <<>>]
NoZones == [zoneRows |-> <<>>, notes |-> <<>>,
            summary |-> [lookupRowsRetained |-> 0, dbfRowsInput |-> 0,
                         dbfUniqueLocationIds |-> 0, missingGeometryIds |-> <<>>]]

ZoneIdle ==
  /\ lookupCsv = <<>>
  /\ dbfFile = <<>>
  /\ zpc = "files"
  /\ lookupResult = NoResult
  /\ zoneResult = NoZones

StagedIdle ==
  /\ spc = "idle"
  /\ chunkSize = 1
  /\ fileOrder = <<>>
  /\ fileIdx = 0
  /\ rowNum = 0
  /\ batch = <<>>
  /\ inProcess = {}
  /\ staging = {}
  /\ cleaned = {}
  /\ flagged = {}
  /\ qlog = {}

NoTotals ==
  [totalRaw |-> 0, totalDupes |-> 0, totalExcluded |-> 0, totalClean |-> 0,
   totalAnomalous |-> 0, totalInserted |-> 0]

LoaderIdle ==
  /\ lpc = "idle"
  /\ flowing = FALSE
  /\ flushes = {}
  /\ lRowNum = 0
  /\ totals = NoTotals
  /\ globalSeen = {}
  /\ tripBatch = <<>>
  /\ errorBatch = <<>>
  /\ logBatch = <<>>
  /\ dbTrips = <<>>
  /\ dbErrors = <<>>
  /\ dbLogs = <<>>

HistIdle ==
  /\ arrived = <<>>
  /\ flushFailed = FALSE
  /\ partialFlush = FALSE

RunIdle ==
  /\ inputs = [lookup |-> "ok", dbf |-> "ok", parquet |-> <<>>]
  /\ rpc = "idle"
  /\ rfileIdx = 0
  /\ dbOps = <<>>

NoQuery == [date_range |-> "", borough |-> "", payment_type |-> "", time_of_day |-> ""]
NoFilters == [dateRange |-> "", borough |-> "", paymentType |-> "", timeOfDay |-> ""]

SrvIdle ==
  /\ draft = "plain"
  /\ loadEnv = FALSE
  /\ bootPc = "idle"
  /\ attempts = 0
  /\ checkOk = FALSE
  /\ listening = FALSE
  /\ everListened = FALSE
  /\ conns = 0
  /\ closePc = "none"
  /\ timerArmed = FALSE
  /\ poolClosed = FALSE
  /\ exit = "running"
  /\ signalled = FALSE

ApiIdle ==
  /\ query = NoQuery
  /\ reqPc = "idle"
  /\ status = 0
  /\ handlerRan = FALSE
  /\ filters = NoFilters
  /\ sqlParams = <<>>

WebIdle == SrvIdle /\ ApiIdle

TripsIdle ==
  pipeline = "none" /\ StagedIdle /\ HistIdle /\ LoaderIdle /\ RunIdle /\ WebIdle

\* ---------------------------------------------------------------------
\* TinyTopHeap (src/src/basic_ds/TinyTopHeap.js)
\* ---------------------------------------------------------------------
\* metric values a row can carry: finite numbers or something that
\* Number() / isFinite rejects
NotFinite == 999
RawScores == (0..MaxScore) \cup {NotFinite}

\* Number.isFinite(value) ? value : Number.NEGATIVE_INFINITY
safeScoreAsGiven(value) == value

safeScore(value) == IF value = NotFinite THEN NegInf ELSE value

At(h, i) == h[i + 1]

parentIndex(i) == (i - 1) \div 2
leftIndex(i) == 2 * i + 1
rightIndex(i) == 2 * i + 2

swap(h, i, j) == [h EXCEPT ![i + 1] = h[j + 1], ![j + 1] = h[i + 1]]

\* #moveUp without its loop: the pushed node stays in the last slot
moveUpNone(h, i) == h

RECURSIVE moveUp(_, _)
moveUp(h, i) ==
  IF i > 0
    THEN LET p == parentIndex(i) IN
         IF At(h, p).score <= At(h, i).score
           THEN h
           ELSE moveUp(swap(h, i, p), p)
    ELSE h

RECURSIVE moveDown(_, _)
moveDown(h, i) ==
  LET left == leftIndex(i)
      right == rightIndex(i)
      s1 == IF left < Len(h) /\ At(h, left).score < At(h, i).score THEN left ELSE i
      small == IF right < Len(h) /\ At(h, right).score < At(h, s1).score THEN right ELSE s1
  IN IF small = i THEN h ELSE moveDown(swap(h, i, small), small)

\* add() with the comparison against the root reversed
addKeepSmall(h, lim, item) ==
  IF lim <= 0 THEN h
  ELSE LET node == [item |-> item, score |-> safeScore(item.metric)] IN
       IF Len(h) < lim
         THEN moveUp(Append(h, node), Len(h))
         ELSE IF node.score >= At(h, 0).score
                THEN h
                ELSE moveDown([h EXCEPT ![1] = node], 0)

add(h, lim, item) ==
  IF lim <= 0 THEN h
  ELSE LET node == [item |-> item, score |-> safeScore(item.metric)] IN
       IF Len(h) < lim
         THEN moveUp(Append(h, node), Len(h))
         ELSE IF node.score <= At(h, 0).score
                THEN h
                ELSE moveDown([h EXCEPT ![1] = node], 0)

popSmallest(h) ==
  IF Len(h) = 1
    THEN [node |-> h[1], heap |-> <<>>]
    ELSE LET root == h[1]
             last == h[Len(h)]
             cut == SubSeq(h, 1, Len(h) - 1)
         IN [node |-> root, heap |-> moveDown([cut EXCEPT ![1] = last], 0)]

\* the loop of getHighToLow writing from the first index forward
RECURSIVE drainForward(_)
drainForward(h) ==
  IF Len(h) = 0 THEN <<>>
  ELSE LET p == popSmallest(h) IN <<p.node.item>> \o drainForward(p.heap)

\* the while loop of getHighToLow: the first node popped lands in the last slot
RECURSIVE drain(_)
drain(h) ==
  IF Len(h) = 0 THEN <<>>
  ELSE LET p == popSmallest(h) IN Append(drain(p.heap), p.node.item)

\* getHighToLow without line 48: the drained heap is left empty
getHighToLowDrained(h) == [out |-> drain(h), heap |-> <<>>]

getHighToLow(h) == [out |-> drain(h), heap |-> h]

HeapInit ==
  /\ limit \in 0..MaxK
  /\ heap = <<>>
  /\ added = <<>>
  /\ out = <<>>
  /\ outValid = FALSE
  /\ ZoneIdle
  /\ TripsIdle

\* TopZonePicker.pick: for (const row of rows) heap.add(row)
Add ==
  /\ Len(added) < MaxN
  /\ \E m \in RawScores :
       LET item == [id |-> Len(added) + 1, metric |-> m] IN
       /\ heap' = add(heap, limit, item)
       /\ added' = Append(added, item)
  /\ outValid' = FALSE
  /\ UNCHANGED <<limit, out>>

GetHighToLow ==
  /\ LET r == getHighToLow(heap) IN
       /\ out' = r.out
       /\ heap' = r.heap
  /\ outValid' = TRUE
  /\ UNCHANGED <<limit, added>>

NextHeap ==
  \/ Add /\ UNCHANGED <<zoneVars, tripVars>>
  \/ GetHighToLow /\ UNCHANGED <<zoneVars, tripVars>>

SpecHeap == HeapInit /\ [][NextHeap]_vars

\* ---------------------------------------------------------------------
\* Zone reconciliation
\*   ReadZoneLookupCsv.readAndCheck (src/src/read_files/ReadZoneLookupCsv.js)
\*   CleanZoneInfo.fixData          (src/unnamed/part_005)
\* ---------------------------------------------------------------------
\* An id text is modelled by the integer it parses to when it matches
\* /^\d+$/, and by BadId when it does not match.
BadId == -1
LookupIdTexts == {BadId, 0, 1}
DbfIdTexts == {BadId, 1, 2}

\* (Borough, Zone, service_zone) after trim; "" is a blank column
LookupTexts ==
  { <<"Bronx", "Z", "S">>, <<"Queens", "Z", "S">>,
    <<"", "Z", "S">>, <<"Bronx", "", "">> }

LookupLines ==
  { [idText |-> i, borough |-> t[1], zone |-> t[2], serviceZone |-> t[3]] :
      i \in LookupIdTexts, t \in LookupTexts }

\* padded: the fixed-width value differs from its trimmed form
DbfRecords == { [idText |-> i, padded |-> p] : i \in DbfIdTexts, p \in BOOLEAN }

DataIssueNote(dataset, kind, n, issueType, action, removed) ==
  [dataset |-> dataset, recordKey |-> [kind |-> kind, n |-> n],
   issueType |-> issueType, action |-> action, removed |-> removed]

isDigits(idText) == idText # BadId

\* first loop of readAndCheck, lines 25-70: one pass over the data lines
RECURSIVE checkLines(_, _, _)
checkLines(lines, i, acc) ==
  IF i > Len(lines) THEN acc
  ELSE
    LET raw == lines[i]
        lineNo == i + 1
    IN IF ~isDigits(raw.idText)
         THEN checkLines(lines, i + 1,
                [acc EXCEPT !.notes = Append(@,
                   DataIssueNote("taxi_zone_lookup.csv", "line", lineNo,
                                 "INVALID_LOCATION_ID", "excluded", 0))])
       ELSE IF raw.borough = "" \/ raw.zone = "" \/ raw.serviceZone = ""
         THEN checkLines(lines, i + 1,
                [acc EXCEPT !.notes = Append(@,
                   DataIssueNote("taxi_zone_lookup.csv", "line", lineNo,
                                 "BLANK_TEXT_VALUE", "excluded", 0))])
       ELSE checkLines(lines, i + 1,
                [acc EXCEPT !.rows = Append(@,
                   [locationId |-> raw.idText, borough |-> raw.borough,
                    zone |-> raw.zone, serviceZone |-> raw.serviceZone])])

\* second loop of readAndCheck, lines 72-90: keep the first row of an id
RECURSIVE dropDupIds(_, _, _, _)
dropDupIds(rows, i, seenIds, acc) ==
  IF i > Len(rows) THEN acc
  ELSE IF rows[i].locationId \in seenIds
    THEN dropDupIds(rows, i + 1, seenIds,
           [acc EXCEPT !.notes = Append(@,
              DataIssueNote("taxi_zone_lookup.csv", "id", rows[i].locationId,
                            "DUPLICATE_LOCATION_ID", "excluded", 0))])
    ELSE dropDupIds(rows, i + 1, seenIds \cup {rows[i].locationId},
           [acc EXCEPT !.rows = Append(@, rows[i])])

\* the result of the first loop alone, duplicates left in
readAndCheckKeepDups(lines) ==
  checkLines(lines, 1, [rows |-> <<>>, notes |-> <<>>])

readAndCheck(lines) ==
  LET first == checkLines(lines, 1, [rows |-> <<>>, notes |-> <<>>])
  IN dropDupIds(first.rows, 1, {}, [rows |-> <<>>, notes |-> first.notes])

\* ids of a sequence in order of first occurrence (Map insertion order)
RECURSIVE firstSeenOrder(_, _, _)
firstSeenOrder(ids, i, acc) ==
  IF i > Len(ids) THEN acc
  ELSE IF \E k \in 1..Len(acc) : acc[k] = ids[i]
    THEN firstSeenOrder(ids, i + 1, acc)
    ELSE firstSeenOrder(ids, i + 1, Append(acc, ids[i]))

\* Array.sort((a, b) => a - b) on a set of distinct ids
RECURSIVE sortAsc(_)
sortAsc(S) ==
  IF S = {} THEN <<>>
  ELSE LET mn == CHOOSE x \in S : \A y \in S : x <= y
       IN <<mn>> \o sortAsc(S \ {mn})

SeqRange(sq) == { sq[i] : i \in 1..Len(sq) }

\* the keys of idCountMap alone: an id counts once however often it occurs
idCountPresence(dbfRows, id) ==
  IF \E i \in 1..Len(dbfRows) : isDigits(dbfRows[i].idText) /\ dbfRows[i].idText = id
    THEN 1 ELSE 0

\* idCountMap after the loop of lines 47-89
idCount(dbfRows, id) ==
  Cardinality({ i \in 1..Len(dbfRows) : isDigits(dbfRows[i].idText) /\ dbfRows[i].idText = id })

\* notes pushed by the loop of lines 47-89
RECURSIVE dbfNotes(_, _, _)
dbfNotes(dbfRows, i, acc) ==
  IF i > Len(dbfRows) THEN acc
  ELSE
    LET a1 == IF dbfRows[i].padded
                THEN Append(acc, DataIssueNote("taxi_zones.dbf", "row", i,
                                   "FIXED_WIDTH_PADDING", "trimmed", 0))
                ELSE acc
        a2 == IF ~isDigits(dbfRows[i].idText)
                THEN Append(a1, DataIssueNote("taxi_zones.dbf", "row", i,
                                   "INVALID_LOCATION_ID", "excluded", 0))
                ELSE a1
    IN dbfNotes(dbfRows, i + 1, a2)

\* notes pushed by the loop of lines 91-106, in idCountMap entry order
RECURSIVE dupShapeNotes(_, _, _, _)
dupShapeNotes(dbfRows, order, i, acc) ==
  IF i > Len(order) THEN acc
  ELSE LET count == idCount(dbfRows, order[i]) IN
       dupShapeNotes(dbfRows, order, i + 1,
         IF count > 1
           THEN Append(acc, DataIssueNote("taxi_zones.dbf", "id", order[i],
                              "DUPLICATE_SHAPE_METADATA", "excluded", count - 1))
           ELSE acc)

RECURSIVE missingNotes(_, _, _)
missingNotes(ids, i, acc) ==
  IF i > Len(ids) THEN acc
  ELSE missingNotes(ids, i + 1,
         Append(acc, DataIssueNote("taxi_zones.dbf", "id", ids[i],
                       "MISSING_GEOMETRY", "retained_non_mappable", 0)))

\* new Map(lookupRows.map(r => [r.locationId, r])).get(id): a later row
\* with the same key replaces the value
lookupMapGet(lookupRows, id) ==
  LET last == CHOOSE i \in 1..Len(lookupRows) :
                /\ lookupRows[i].locationId = id
                /\ \A j \in (i + 1)..Len(lookupRows) : lookupRows[j].locationId # id
  IN lookupRows[last]

\* the mapping of lines 129-139 without the geometry count
zoneRowNoCount(lookup, oneCount) ==
  [locationId |-> lookup.locationId, borough |-> lookup.borough,
   zone |-> lookup.zone, serviceZone |-> lookup.serviceZone,
   hasGeometry |-> TRUE, geometryRecordCount |-> oneCount,
   mapStatus |-> "mappable"]

zoneRow(lookup, oneCount) ==
  [locationId |-> lookup.locationId, borough |-> lookup.borough,
   zone |-> lookup.zone, serviceZone |-> lookup.serviceZone,
   hasGeometry |-> oneCount > 0, geometryRecordCount |-> oneCount,
   mapStatus |-> IF oneCount > 0 THEN "mappable" ELSE "missing_geometry"]

\* lines 127-128 keeping only the ids that have geometry
zoneKeysMappableOnly(lookupRows, dbfRows) ==
  sortAsc({ id \in { lookupRows[k].locationId : k \in 1..Len(lookupRows) } :
              idCount(dbfRows, id) > 0 })

\* lines 127-128: Array.from(lookupMap.values()).sort(...), as the sorted keys
zoneKeys(lookupRows, dbfRows) ==
  sortAsc({ lookupRows[k].locationId : k \in 1..Len(lookupRows) })

fixData(lookupRows, dbfRows) ==
  LET validIds == [k \in 1..Len(dbfRows) |-> dbfRows[k].idText]
      order == firstSeenOrder(
                 SelectSeq(validIds, LAMBDA x : isDigits(x)), 1, <<>>)
      dbfIdSet == SeqRange(order)
      lookupKeys == { lookupRows[k].locationId : k \in 1..Len(lookupRows) }
      missingGeometryIds == sortAsc({ id \in lookupKeys : id \notin dbfIdSet })
      n1 == dbfNotes(dbfRows, 1, <<>>)
      n2 == dupShapeNotes(dbfRows, order, 1, n1)
      n3 == missingNotes(missingGeometryIds, 1, n2)
      sortedKeys == zoneKeys(lookupRows, dbfRows)
      zoneRows == [k \in 1..Len(sortedKeys) |->
                     zoneRow(lookupMapGet(lookupRows, sortedKeys[k]),
                             idCount(dbfRows, sortedKeys[k]))]
  IN [zoneRows |-> zoneRows, notes |-> n3,
      summary |-> [lookupRowsRetained |-> Len(lookupRows),
                   dbfRowsInput |-> Len(dbfRows),
                   dbfUniqueLocationIds |-> Cardinality(dbfIdSet),
                   missingGeometryIds |-> missingGeometryIds]]

ZoneInit == HeapIdle /\ ZoneIdle /\ TripsIdle

\* the input files as found on disk when runAll starts
WriteLookupLine ==
  /\ zpc = "files"
  /\ Len(lookupCsv) < MaxLookup
  /\ \E l \in LookupLines : lookupCsv' = Append(lookupCsv, l)
  /\ UNCHANGED <<dbfFile, zpc, lookupResult, zoneResult>>

WriteDbfRecord ==
  /\ zpc = "files"
  /\ Len(dbfFile) < MaxDbf
  /\ \E r \in DbfRecords : dbfFile' = Append(dbfFile, r)
  /\ UNCHANGED <<lookupCsv, zpc, lookupResult, zoneResult>>

\* runAll lines 38-39
ReadAndCheck ==
  /\ zpc = "files"
  /\ lookupResult' = readAndCheck(lookupCsv)
  /\ zpc' = "read"
  /\ UNCHANGED <<lookupCsv, dbfFile, zoneResult>>

\* runAll line 40
FixData ==
  /\ zpc = "read"
  /\ zoneResult' = fixData(lookupResult.rows, dbfFile)
  /\ zpc' = "fixed"
  /\ UNCHANGED <<lookupCsv, dbfFile, lookupResult>>

NextZone ==
  \/ WriteLookupLine /\ UNCHANGED <<heapVars, tripVars>>
  \/ WriteDbfRecord /\ UNCHANGED <<heapVars, tripVars>>
  \/ ReadAndCheck /\ UNCHANGED <<heapVars, tripVars>>
  \/ FixData /\ UNCHANGED <<heapVars, tripVars>>

SpecZone == ZoneInit /\ [][NextZone]_vars

\* ---------------------------------------------------------------------
\* Raw trip rows (input of both ingestion programs)
\* ---------------------------------------------------------------------
\* A raw column value is an integer (timestamps in milliseconds, amounts in
\* whole units) or one of these markers.
Null == -9000      \* JS null / SQL NULL
Absent == -9001    \* column missing, null or ""
Garbage == -9002   \* text that is neither a number nor a date
BadDate == -9003   \* text shaped YYYY-MM-DD HH:MM:SS that is no real date
InfText == -9004   \* the text "Infinity"

BaseRow ==
  [vendor |-> 1, pickup |-> 0, dropoff |-> 600000, pu |-> 1, do |-> 2,
   passengers |-> 1, rate |-> 1, distance |-> 2, fare |-> 10, tip |-> 1,
   total |-> 12]

RawTripRows ==
  { BaseRow,
    [BaseRow EXCEPT !.dropoff = Garbage],
    [BaseRow EXCEPT !.pickup = BadDate],
    [BaseRow EXCEPT !.pickup = 600000, !.dropoff = 540000],
    [BaseRow EXCEPT !.dropoff = 200],
    [BaseRow EXCEPT !.pu = Absent],
    [BaseRow EXCEPT !.distance = -1],
    [BaseRow EXCEPT !.distance = 0],
    [BaseRow EXCEPT !.distance = 30],
    [BaseRow EXCEPT !.fare = -5],
    [BaseRow EXCEPT !.total = InfText],
    [BaseRow EXCEPT !.tip = 8],
    [BaseRow EXCEPT !.do = 9] }

\* the location ids of the zone dimension when the trips are ingested
ZoneDimension == {1, 2}

IsMarker(v) == v \in {Null, Absent, Garbage, BadDate, InfText}

\* ---------------------------------------------------------------------
\* CleanTripLine.makeCleanRow (src/unnamed/part_007)
\* ---------------------------------------------------------------------
readInt(value) == IF IsMarker(value) THEN Null ELSE value

readFloat(value) == IF IsMarker(value) THEN Null ELSE value

\* the regex branch copies the matched text; every other branch formats
\* a Date down to whole seconds
readTime(value) ==
  IF value = BadDate THEN BadDate
  ELSE IF IsMarker(value) THEN Null
  ELSE (value \div 1000) * 1000

makeCleanRow(rawRow, sourceFile, sourceRowNum) ==
  [sourceFile |-> sourceFile,
   sourceRowNum |-> sourceRowNum,
   vendorId |-> readInt(rawRow.vendor),
   pickupTs |-> readTime(rawRow.pickup),
   dropoffTs |-> readTime(rawRow.dropoff),
   passengerCount |-> readInt(rawRow.passengers),
   tripDistance |-> readFloat(rawRow.distance),
   puLocationId |-> readInt(rawRow.pu),
   doLocationId |-> readInt(rawRow.do),
   fareAmount |-> readFloat(rawRow.fare),
   tipAmount |-> readFloat(rawRow.tip),
   totalAmount |-> readFloat(rawRow.total)]

\* ---------------------------------------------------------------------
\* DbTasks.makeCleanTripsAndFlags (src/src/db_files/DbTasks.js)
\* ---------------------------------------------------------------------
\* a computed column: SQL NULL, or the exact fraction n / d; a fraction with
\* d = 0 stands for a division by zero that was not guarded
NullFrac == [null |-> TRUE, n |-> 0, d |-> 1]
Frac(a, b) == [null |-> FALSE, n |-> a, d |-> b]
IsFinite(f) == ~f.null /\ f.d # 0

\* NULLIF(b, 0)
nullIfZero(b) == IF b = 0 THEN Null ELSE b

\* a / b in SQL: NULL when an operand is NULL
sqlDiv(a, b) == IF a = Null \/ b = Null THEN NullFrac ELSE Frac(a, b)

\* comparisons of a fraction with positive denominator against a constant
FracGt(f, c) == ~f.null /\ f.n > c * f.d
FracLt(f, c) == ~f.null /\ f.n < c * f.d

\* PARTITION BY of the window: NULLs fall in the same partition
samePartition(a, b) ==
  /\ a.pickupTs = b.pickupTs
  /\ a.dropoffTs = b.dropoffTs
  /\ a.puLocationId = b.puLocationId
  /\ a.doLocationId = b.doLocationId
  /\ a.passengerCount = b.passengerCount
  /\ a.tripDistance = b.tripDistance
  /\ a.fareAmount = b.fareAmount
  /\ a.tipAmount = b.tipAmount
  /\ a.totalAmount = b.totalAmount

\* ORDER BY s.source_file, s.source_row_num
orderedBefore(a, b) ==
  \/ a.sourceFile < b.sourceFile
  \/ a.sourceFile = b.sourceFile /\ a.sourceRowNum < b.sourceRowNum

duplicateRank(S, r) ==
  1 + Cardinality({ x \in S : samePartition(x, r) /\ orderedBefore(x, r) })

\* EXTRACT(EPOCH FROM (dropoff_ts - pickup_ts)), in milliseconds
durationMs(r) ==
  IF r.pickupTs = Null \/ r.dropoffTs = Null THEN Null
  ELSE r.dropoffTs - r.pickupTs

isExcluded(S, r) ==
  \/ duplicateRank(S, r) > 1
  \/ r.pickupTs = Null
  \/ r.dropoffTs = Null
  \/ r.puLocationId = Null
  \/ r.doLocationId = Null
  \/ r.tripDistance = Null
  \/ r.tripDistance < 0
  \/ r.fareAmount = Null
  \/ r.totalAmount = Null
  \/ r.fareAmount < 0
  \/ r.totalAmount < 0
  \/ durationMs(r) <= 0

TripLog(sourceFile, sourceRowNum, issueType, action) ==
  [sourceFile |-> sourceFile, sourceRowNum |-> sourceRowNum,
   issueType |-> issueType, action |-> action]

duplicateLogs(S) ==
  { TripLog(q.sourceFile, q.sourceRowNum, "DUPLICATE_TRIP", "excluded") :
      q \in { x \in S : duplicateRank(S, x) > 1 } }

\* the TRIP_EXCLUDED insert without its duplicate_rank = 1 condition
excludedLogsAnyRank(S) ==
  { TripLog(q.sourceFile, q.sourceRowNum, "TRIP_EXCLUDED", "excluded") :
      q \in { x \in S : isExcluded(S, x) } }

excludedLogs(S) ==
  { TripLog(q.sourceFile, q.sourceRowNum, "TRIP_EXCLUDED", "excluded") :
      q \in { x \in S : isExcluded(S, x) /\ duplicateRank(S, x) = 1 } }

\* LEFT JOIN zones: the labels of a zone, stood for by its id, or NULL
zoneLabel(id) == IF id \in ZoneDimension THEN id ELSE Null

\* one row of the INSERT INTO trips_cleaned ... SELECT (durations kept in
\* milliseconds: trip_duration_min = durationMs / 60000)
cleanedRow(q) ==
  [sourceFile |-> q.sourceFile,
   sourceRowNum |-> q.sourceRowNum,
   pickupTs |-> q.pickupTs,
   dropoffTs |-> q.dropoffTs,
   puLocationId |-> q.puLocationId,
   doLocationId |-> q.doLocationId,
   passengerCount |-> q.passengerCount,
   pickupBorough |-> zoneLabel(q.puLocationId),
   dropoffBorough |-> zoneLabel(q.doLocationId),
   tripDistance |-> q.tripDistance,
   fareAmount |-> q.fareAmount,
   tipAmount |-> q.tipAmount,
   totalAmount |-> q.totalAmount,
   tripDurationMs |-> durationMs(q),
   revenuePerMinute |-> sqlDiv(q.totalAmount * 60000, nullIfZero(durationMs(q))),
   farePerMile |-> sqlDiv(q.totalAmount, nullIfZero(q.tripDistance)),
   avgSpeedMph |-> sqlDiv(q.tripDistance * 3600000, nullIfZero(durationMs(q))),
   tipPercentage |-> sqlDiv(IF q.tipAmount = Null THEN Null ELSE 100 * q.tipAmount,
                            nullIfZero(q.fareAmount))]

cleanedRows(S) == { cleanedRow(q) : q \in { x \in S : ~isExcluded(S, x) } }

\* the four CASE branches of the LATERAL VALUES list
anomalyTypes(t) ==
  (IF 2 * t.tripDistance > 1
       /\ (FracGt(t.avgSpeedMph, 80) \/ FracLt(t.avgSpeedMph, 1))
     THEN {"SPEED_OUT_OF_RANGE"} ELSE {})
  \cup
  (IF t.tripDistance > 0
       /\ (FracGt(t.farePerMile, 50) \/ FracLt(t.farePerMile, 1))
     THEN {"FARE_PER_MILE_OUT_OF_RANGE"} ELSE {})
  \cup
  (IF t.tripDurationMs < 60000 /\ t.tripDistance > 2
     THEN {"DURATION_DISTANCE_CONFLICT"} ELSE {})
  \cup
  (IF t.fareAmount > 0 /\ t.tipAmount # Null /\ 2 * t.tipAmount > t.fareAmount
     THEN {"TIP_OVER_50_PERCENT"} ELSE {})

flaggedRows(C) ==
  UNION { { [sourceFile |-> t.sourceFile, sourceRowNum |-> t.sourceRowNum,
             anomalyType |-> a, severity |-> "suspicious"] :
              a \in anomalyTypes(t) } : t \in C }

\* ---------------------------------------------------------------------
\* RunPipelineStep.runAll / #loadOneParquetFile (src/unnamed/part_006)
\* ---------------------------------------------------------------------
\* findParquetFiles sorts the full paths; source_file is the base name.
\* A layout is the sequence of base names (numbered in text order) met in
\* path order.
FileLayouts == { <<1>>, <<1, 2>>, <<2, 1>> }

RowsRead == Cardinality(staging) + Len(batch)

\* insert of a batch is refused by the TIMESTAMP columns
batchRejected(b) ==
  \E i \in 1..Len(b) : b[i].pickupTs = BadDate \/ b[i].dropoffTs = BadDate

StagedInit ==
  /\ pipeline = "staged"
  /\ spc = "start"
  /\ chunkSize \in 1..MaxChunk
  /\ fileOrder \in FileLayouts
  /\ fileIdx = 0
  /\ rowNum = 0
  /\ batch = <<>>
  /\ inProcess = {}
  /\ staging = {}
  /\ cleaned = {}
  /\ flagged = {}
  /\ qlog = {}
  /\ HistIdle
  /\ LoaderIdle

\* runAll lines 42-50, then the first iteration of the file loop
OpenAndClear ==
  /\ pipeline = "staged"
  /\ spc = "start"
  /\ spc' = "rows"
  /\ fileIdx' = 1
  /\ rowNum' = 0
  /\ UNCHANGED <<chunkSize, fileOrder, batch, inProcess, staging, cleaned, flagged, qlog>>
  /\ UNCHANGED histVars

\* for await (...) takes the next row only when the loop body has finished
mayTakeRow(pc) == pc = "rows"

\* one iteration of the for-await loop, lines 74-82, up to its await
StageRow ==
  /\ pipeline = "staged"
  /\ mayTakeRow(spc)
  /\ RowsRead < MaxRows
  /\ \E rawRow \in RawTripRows :
       LET cleanRow == makeCleanRow(rawRow, fileOrder[fileIdx], rowNum + 1) IN
       /\ rowNum' = rowNum + 1
       /\ batch' = Append(batch, cleanRow)
       /\ arrived' = Append(arrived, [file |-> fileIdx, row |-> rowNum + 1, raw |-> rawRow])
       /\ IF Len(batch) + 1 >= chunkSize
            THEN /\ spc' = "saving"
                 /\ inProcess' = inProcess \cup {<<fileIdx, rowNum + 1>>}
            ELSE /\ spc' = "rows"
                 /\ inProcess' = inProcess
  /\ UNCHANGED <<chunkSize, fileOrder, fileIdx, staging, cleaned, flagged, qlog>>
  /\ UNCHANGED <<flushFailed, partialFlush>>

\* saveTripStageBatch resolves: one INSERT of the whole batch
SaveBatchDone ==
  /\ pipeline = "staged"
  /\ spc \in {"saving", "savingLast"}
  /\ ~batchRejected(batch)
  /\ staging' = staging \cup SeqRange(batch)
  /\ batch' = <<>>
  /\ inProcess' = {}
  /\ IF spc = "saving" THEN /\ spc' = "rows"
                            /\ UNCHANGED <<fileIdx, rowNum>>
     ELSE IF fileIdx < Len(fileOrder)
            THEN /\ spc' = "rows"
                 /\ fileIdx' = fileIdx + 1
                 /\ rowNum' = 0
            ELSE /\ spc' = "cleaning"
                 /\ UNCHANGED <<fileIdx, rowNum>>
  /\ UNCHANGED <<chunkSize, fileOrder, cleaned, flagged, qlog>>
  /\ UNCHANGED histVars

\* saveTripStageBatch rejects: the INSERT inserts nothing and runAll throws
SaveBatchFails ==
  /\ pipeline = "staged"
  /\ spc \in {"saving", "savingLast"}
  /\ spc' = "failed"
  /\ inProcess' = {}
  /\ flushFailed' = TRUE
  /\ UNCHANGED <<chunkSize, fileOrder, fileIdx, rowNum, batch, staging, cleaned, flagged, qlog>>
  /\ UNCHANGED <<arrived, partialFlush>>

\* the row stream of the current file ends, lines 85-87
EndOfFile ==
  /\ pipeline = "staged"
  /\ spc = "rows"
  /\ IF Len(batch) > 0
       THEN /\ spc' = "savingLast"
            /\ UNCHANGED <<fileIdx, rowNum>>
       ELSE IF fileIdx < Len(fileOrder)
              THEN /\ spc' = "rows"
                   /\ fileIdx' = fileIdx + 1
                   /\ rowNum' = 0
              ELSE /\ spc' = "cleaning"
                   /\ UNCHANGED <<fileIdx, rowNum>>
  /\ UNCHANGED <<chunkSize, fileOrder, batch, inProcess, staging, cleaned, flagged, qlog>>
  /\ UNCHANGED histVars

\* runAll line 57: the multi-statement query of makeCleanTripsAndFlags
MakeCleanTripsAndFlags ==
  /\ pipeline = "staged"
  /\ spc = "cleaning"
  /\ qlog' = qlog \cup duplicateLogs(staging) \cup excludedLogs(staging)
  /\ cleaned' = cleanedRows(staging)
  /\ flagged' = flaggedRows(cleanedRows(staging))
  /\ spc' = "done"
  /\ UNCHANGED <<chunkSize, fileOrder, fileIdx, rowNum, batch, inProcess, staging>>
  /\ UNCHANGED histVars

NextStaged ==
  \/ OpenAndClear /\ UNCHANGED loaderVars
  \/ StageRow /\ UNCHANGED loaderVars
  \/ SaveBatchDone /\ UNCHANGED loaderVars
  \/ SaveBatchFails /\ UNCHANGED loaderVars
  \/ EndOfFile /\ UNCHANGED loaderVars
  \/ MakeCleanTripsAndFlags /\ UNCHANGED loaderVars

\* ---------------------------------------------------------------------
\* backend/data_processing/dataLoader.js
\* ---------------------------------------------------------------------
NaNv == -9005      \* JS NaN
PInf == -9006      \* JS Infinity

parseIntJs(v) == IF IsMarker(v) THEN NaNv ELSE v
parseFloatJs(v) == IF v = InfText THEN PInf ELSE IF IsMarker(v) THEN NaNv ELSE v
\* new Date(text).getTime()
parseDate(v) == IF IsMarker(v) THEN NaNv ELSE v

\* a < c, a <= c, a > c for a finite constant c
jsLt(a, c) == a # NaNv /\ a # PInf /\ a < c
jsLe(a, c) == a # NaNv /\ a # PInf /\ a <= c
jsGt(a, c) == a # NaNv /\ (a = PInf \/ a > c)

\* v || dflt
orElse(v, dflt) == IF v = NaNv \/ v = 0 THEN dflt ELSE v
\* isNaN(v) ? dflt : v
nanTo(v, dflt) == IF v = NaNv THEN dflt ELSE v

\* parseFloat((n / d).toFixed(k)) in units of 10^-k, for d > 0
roundDiv(n, d) ==
  IF n >= 0 THEN (2 * n + d) \div (2 * d)
  ELSE 0 - ((2 * (0 - n) + d) \div (2 * d))

fixedDiv(a, scale, d) == IF a = PInf THEN PInf ELSE roundDiv(a * scale, d)

Log(rowNo, errType, action) ==
  [row_num |-> rowNo, err_type |-> errType, action |-> action]

addIf(cond, logs, entry) == IF cond THEN Append(logs, entry) ELSE logs

normaliseRow(raw, rowNo) ==
  LET pickupDt == parseDate(raw.pickup)
      dropoffDt == parseDate(raw.dropoff)
      badDate == pickupDt = NaNv \/ dropoffDt = NaNv
      notAfter == ~badDate /\ dropoffDt <= pickupDt
      excluded == badDate \/ notAfter
      passengers == parseIntJs(raw.passengers)
      distance == parseFloatJs(raw.distance)
      fare == parseFloatJs(raw.fare)
      tip == parseFloatJs(raw.tip)
      total == parseFloatJs(raw.total)
      rateId == parseIntJs(raw.rate)
      l1 == addIf(badDate, <<>>, Log(rowNo, "BAD_DATETIME", "excluded"))
      l2 == addIf(notAfter, l1, Log(rowNo, "DROPOFF_BEFORE_PICKUP", "excluded"))
      l3 == addIf(jsLe(passengers, 0), l2, Log(rowNo, "ZERO_PASS", "retained"))
      l4 == addIf(jsGt(passengers, 8), l3, Log(rowNo, "HIGH_PASS", "retained"))
      l5 == addIf(jsLe(distance, 0), l4, Log(rowNo, "ZERO_DIST", "retained"))
      l6 == addIf(jsGt(distance, 100), l5, Log(rowNo, "LARGE_DIST", "retained"))
      l7 == addIf(jsLt(fare, 0), l6, Log(rowNo, "NEG_FARE", "retained"))
      l8 == addIf(jsLt(total, 0), l7, Log(rowNo, "NEG_TOTAL", "retained"))
      l9 == addIf(jsLt(tip, 0), l8, Log(rowNo, "NEG_TIP", "retained"))
      l10 == addIf(rateId \notin 1..6, l9, Log(rowNo, "BAD_RATE_CODE", "retained"))
  IN [trip |->
        [rowNum |-> rowNo,
         vendor |-> orElse(parseIntJs(raw.vendor), Null),
         pickup_time |-> IF excluded THEN Null ELSE pickupDt,
         dropoff_time |-> IF excluded THEN Null ELSE dropoffDt,
         passengers |-> nanTo(passengers, Null),
         distance |-> nanTo(distance, 0),
         pickup_zone |-> orElse(parseIntJs(raw.pu), Null),
         dropoff_zone |-> orElse(parseIntJs(raw.do), Null),
         fare |-> nanTo(fare, 0),
         tip |-> nanTo(tip, 0),
         total |-> nanTo(total, 0),
         duration_min |-> Null,
         speed_mph |-> Null,
         money_per_min |-> Null,
         tip_pct |-> Null,
         cost_per_mile |-> Null],
      logs |-> l10,
      excluded |-> excluded]

\* duration_min and speed_mph are held in hundredths, money_per_min and
\* cost_per_mile in ten-thousandths, as toFixed(2) and toFixed(4) leave them
enrichTrip(trip) ==
  LET elapsedMs == trip.dropoff_time - trip.pickup_time
      duration_min == IF elapsedMs > 0 THEN roundDiv(elapsedMs, 600) ELSE Null
      hasHours == duration_min # Null /\ duration_min # 0
  IN [trip EXCEPT
        !.duration_min = duration_min,
        !.speed_mph = IF hasHours /\ jsGt(trip.distance, 0)
                        THEN fixedDiv(trip.distance, 600000, duration_min)
                        ELSE Null,
        !.money_per_min = IF hasHours /\ duration_min > 0
                            THEN fixedDiv(trip.total, 1000000, duration_min)
                            ELSE Null,
        !.tip_pct = IF jsGt(trip.fare, 0)
                      THEN IF trip.fare = PInf THEN 0
                           ELSE fixedDiv(trip.tip, 10000, trip.fare)
                      ELSE Null,
        !.cost_per_mile = IF jsGt(trip.distance, 0)
                            THEN IF trip.distance = PInf THEN 0
                                 ELSE fixedDiv(trip.total, 10000, trip.distance)
                            ELSE Null]

checkAnomalies(trip) ==
  LET t1 == addIf(trip.speed_mph # Null /\ jsGt(trip.speed_mph, 8000), <<>>, "HIGH_SPEED")
      t2 == addIf(trip.tip_pct # Null /\ jsGt(trip.tip_pct, 10000), t1, "HIGH_TIP_PCT")
      t3 == addIf(trip.distance = 0 /\ jsGt(trip.fare, 0), t2, "ZERO_DIST_POS_FARE")
  IN t3

\* buildTripKey as called at lines 409-416 (src/unnamed/part_013)
buildTripKey(trip) ==
  <<trip.vendor, trip.pickup_time, trip.dropoff_time, trip.pickup_zone,
    trip.dropoff_zone, trip.total>>

\* the key set is started afresh with the new key
markSeenForgetful(seen, key) == {key}

\* globalSeen[key] = 1, line 422
markSeen(seen, key) == seen \cup {key}

\* the handler goes on without parser.pause()
afterPauseMissing(f) == f

\* parser.pause(): the readable side leaves flowing mode
afterPause(f) == FALSE

LoaderInit ==
  /\ pipeline = "stream"
  /\ StagedIdle
  /\ HistIdle
  /\ lpc = "streaming"
  /\ flowing = TRUE
  /\ flushes = {}
  /\ lRowNum = 0
  /\ totals = NoTotals
  /\ globalSeen = {}
  /\ tripBatch = <<>>
  /\ errorBatch = <<>>
  /\ logBatch = <<>>
  /\ dbTrips = <<>>
  /\ dbErrors = <<>>
  /\ dbLogs = <<>>

\* pickup_zone and dropoff_zone REFERENCES zones(id): a non-null id that is
\* not in zones fails the constraint when the INSERT commits
fkRejected(b) ==
  \E i \in 1..Len(b) :
    \E z \in {b[i].pickup_zone, b[i].dropoff_zone} :
      z # Null /\ z \notin ZoneDimension

\* the NUMERIC(p, s) columns of trips refuse an infinite value and the
\* zone columns an id unknown to zones, so the INSERT of a batch holding
\* either always rejects
tripsRejected(b) ==
  \/ \E i \in 1..Len(b) :
       PInf \in {b[i].distance, b[i].fare, b[i].tip, b[i].total, b[i].speed_mph,
                 b[i].money_per_min, b[i].tip_pct, b[i].cost_per_mile}
  \/ fkRejected(b)

NewFlush(caller) == [caller |-> caller, step |-> "trips", applied |-> FALSE]

\* parser.on('data', ...) lines 386-462, from the event to the first await
\* or to the return when no await is reached
OnData ==
  /\ pipeline = "stream"
  /\ lpc = "streaming"
  /\ flowing
  /\ lRowNum <= ROW_LIMIT
  /\ \E raw \in RawTripRows :
       LET rowNo == lRowNum + 1
           n == normaliseRow(raw, rowNo)
           logs1 == logBatch \o n.logs
           key == buildTripKey(n.trip)
           trip == enrichTrip(n.trip)
           types == checkAnomalies(trip)
           logs2 == logs1 \o [k \in 1..Len(types) |-> Log(rowNo, types[k], "retained")]
       IN
       /\ lRowNum' = rowNo
       /\ IF rowNo > ROW_LIMIT
            THEN \* parser.destroy(): 'close' resolves the promise of line 383
                 /\ totals' = [totals EXCEPT !.totalRaw = @ + 1]
                 /\ flowing' = FALSE
                 /\ IF Len(tripBatch) > 0 \/ Len(errorBatch) > 0 \/ Len(logBatch) > 0
                      THEN lpc' = "finalFlush" /\ flushes' = flushes \cup {NewFlush(0)}
                      ELSE lpc' = "done" /\ flushes' = flushes
                 /\ UNCHANGED <<globalSeen, tripBatch, errorBatch, logBatch, arrived>>
          ELSE
            /\ arrived' = Append(arrived, [file |-> 1, row |-> rowNo, raw |-> raw])
            /\ lpc' = lpc
            /\ IF n.excluded
                 THEN /\ totals' = [totals EXCEPT !.totalRaw = @ + 1, !.totalExcluded = @ + 1]
                      /\ logBatch' = logs1
                      /\ UNCHANGED <<globalSeen, tripBatch, errorBatch>>
                      /\ IF Len(tripBatch) >= CHUNK_SIZE
                           THEN /\ flushes' = flushes \cup {NewFlush(rowNo)}
                                /\ flowing' = afterPause(flowing)
                           ELSE /\ flushes' = flushes
                                /\ flowing' = TRUE
               ELSE IF key \in globalSeen
                 THEN /\ totals' = [totals EXCEPT !.totalRaw = @ + 1, !.totalDupes = @ + 1]
                      /\ logBatch' = logs1
                      /\ flowing' = TRUE
                      /\ UNCHANGED <<globalSeen, tripBatch, errorBatch, flushes>>
               ELSE /\ globalSeen' = markSeen(globalSeen, key)
                    /\ logBatch' = logs2
                    /\ IF Len(types) > 0
                         THEN /\ totals' = [totals EXCEPT !.totalRaw = @ + 1,
                                                          !.totalAnomalous = @ + 1]
                              /\ errorBatch' = errorBatch \o
                                   [k \in 1..Len(types) |-> [rowNum |-> rowNo, type |-> types[k]]]
                         ELSE /\ totals' = [totals EXCEPT !.totalRaw = @ + 1,
                                                          !.totalClean = @ + 1]
                              /\ errorBatch' = errorBatch
                    /\ tripBatch' = Append(tripBatch, trip)
                    /\ IF Len(tripBatch) + 1 >= CHUNK_SIZE
                         THEN /\ flushes' = flushes \cup {NewFlush(rowNo)}
                              /\ flowing' = afterPause(flowing)
                         ELSE /\ flushes' = flushes
                              /\ flowing' = TRUE
  /\ UNCHANGED <<dbTrips, dbErrors, dbLogs, flushFailed, partialFlush>>

\* what flushBatch passes to the INSERT it is about to await
stepBatch(step) ==
  IF step = "trips" THEN tripBatch ELSE IF step = "errors" THEN errorBatch ELSE logBatch

\* the flushBatch call returns to its caller: the handler falls through to
\* parser.resume() of line 461, loadData goes on to line 476
FlushReturns(f, failed) ==
  /\ flushes' = flushes \ {f}
  /\ IF f.caller = 0
       THEN /\ lpc' = IF failed THEN "failed" ELSE "done"
            /\ flowing' = flowing
       ELSE /\ lpc' = lpc
            /\ flowing' = TRUE

\* the INSERT awaited by a flushBatch call resolves, lines 375-380
InsertResolves ==
  /\ pipeline = "stream"
  /\ \E f \in flushes :
       LET b == stepBatch(f.step)
           g == [f EXCEPT !.applied = @ \/ Len(b) > 0]
       IN
       /\ ~(f.step = "trips" /\ tripsRejected(b))
       /\ dbTrips' = IF f.step = "trips" THEN dbTrips \o b ELSE dbTrips
       /\ dbErrors' = IF f.step = "errors" THEN dbErrors \o b ELSE dbErrors
       /\ dbLogs' = IF f.step = "logs" THEN dbLogs \o b ELSE dbLogs
       /\ totals' = IF f.step = "trips"
                      THEN [totals EXCEPT !.totalInserted = @ + Len(b)]
                      ELSE totals
       /\ IF f.step = "logs"
            THEN /\ tripBatch' = <<>>
                 /\ errorBatch' = <<>>
                 /\ logBatch' = <<>>
                 /\ FlushReturns(f, FALSE)
            ELSE /\ flushes' = (flushes \ {f}) \cup
                        {[g EXCEPT !.step = IF f.step = "trips" THEN "errors" ELSE "logs"]}
                 /\ UNCHANGED <<tripBatch, errorBatch, logBatch, lpc, flowing>>
  /\ UNCHANGED <<lRowNum, globalSeen, arrived, flushFailed, partialFlush>>

\* the INSERT awaited by a flushBatch call rejects: db.query rethrows, the
\* handler's catch of line 457 logs it, loadData itself does not catch
InsertRejects ==
  /\ pipeline = "stream"
  /\ \E f \in flushes :
       /\ Len(stepBatch(f.step)) > 0
       /\ flushFailed' = TRUE
       /\ partialFlush' = (partialFlush \/ f.applied)
       /\ FlushReturns(f, TRUE)
  /\ UNCHANGED <<lRowNum, totals, globalSeen, tripBatch, errorBatch, logBatch,
                 dbTrips, dbErrors, dbLogs, arrived>>

\* parser 'end': resolve(), then lines 472-474
OnEnd ==
  /\ pipeline = "stream"
  /\ lpc = "streaming"
  /\ flowing
  /\ flowing' = FALSE
  /\ IF Len(tripBatch) > 0 \/ Len(errorBatch) > 0 \/ Len(logBatch) > 0
       THEN lpc' = "finalFlush" /\ flushes' = flushes \cup {NewFlush(0)}
       ELSE lpc' = "done" /\ flushes' = flushes
  /\ UNCHANGED <<lRowNum, totals, globalSeen, tripBatch, errorBatch, logBatch,
                 dbTrips, dbErrors, dbLogs, histVars>>

NextLoader ==
  \/ OnData
  \/ InsertResolves
  \/ InsertRejects
  \/ OnEnd

TripsInit == HeapIdle /\ ZoneIdle /\ RunIdle /\ WebIdle /\ (StagedInit \/ LoaderInit)

NextTrips ==
  \/ NextStaged /\ UNCHANGED <<heapVars, zoneVars, pipeline, runVars, webVars>>
  \/ NextLoader /\ UNCHANGED <<heapVars, zoneVars, pipeline, stagedVars, runVars, webVars>>

SpecTrips == TripsInit /\ [][NextTrips]_vars

\* ---------------------------------------------------------------------
\* Reference notions used by the properties
\* ---------------------------------------------------------------------
ScoresOf(items) == [i \in 1..Len(items) |-> safeScore(items[i].metric)]

RECURSIVE SortDesc(_)
SortDesc(s) ==
  IF Len(s) = 0 THEN <<>>
  ELSE LET mx == CHOOSE i \in 1..Len(s) : \A j \in 1..Len(s) : s[j] <= s[i]
           rest == [k \in 1..(Len(s) - 1) |-> IF k < mx THEN s[k] ELSE s[k + 1]]
       IN <<s[mx]>> \o SortDesc(rest)

\* C1: with k <= n, after adding all n items getHighToLow returns exactly k
\* items, sorted descending by score, whose scores are the first k scores of
\* a full descending sort of the input.
C1_TopKCorrect ==
  (outValid /\ limit <= Len(added)) =>
     /\ Len(out) = limit
     /\ ScoresOf(out) = SubSeq(SortDesc(ScoresOf(added)), 1, limit)

\* the worked example's shape: more items than capacity, the kept ones are
\* the largest and a smaller one arrived in between
C1_Witness ==
  /\ outValid
  /\ limit = 2
  /\ Len(added) = MaxN
  /\ ScoresOf(out) = <<3, 2>>
  /\ ScoresOf(added)[1] = 1

ZoneRecordsFor(id) ==
  { k \in 1..Len(zoneResult.zoneRows) : zoneResult.zoneRows[k].locationId = id }

\* a lookup line that passes the checks of readAndCheck lines 38-62
LineSurvives(l) ==
  isDigits(l.idText) /\ l.borough # "" /\ l.zone # "" /\ l.serviceZone # ""

\* C5 as stated: every locationId present in the lookup input has exactly one
\* ZoneRecord in the reconciled output.
C5_EveryLookupIdOnce ==
  zpc = "fixed" =>
    \A i \in 1..Len(lookupCsv) :
      isDigits(lookupCsv[i].idText) =>
        Cardinality(ZoneRecordsFor(lookupCsv[i].idText)) = 1

\* C5 amended: every locationId carried by at least one lookup line with a
\* numeric id and non-blank borough, zone and service zone has exactly one
\* ZoneRecord; an id whose lines are all excluded has none.
C5_SurvivingIdOnce ==
  zpc = "fixed" =>
    \A id \in LookupIdTexts \ {BadId} :
      Cardinality(ZoneRecordsFor(id)) =
        IF \E i \in 1..Len(lookupCsv) :
             lookupCsv[i].idText = id /\ LineSurvives(lookupCsv[i])
          THEN 1 ELSE 0

\* two surviving lines share an id and the id has no geometry
C5_Witness ==
  /\ zpc = "fixed"
  /\ Len(lookupCsv) = 2
  /\ lookupCsv[1].idText = lookupCsv[2].idText
  /\ LineSurvives(lookupCsv[1]) /\ LineSurvives(lookupCsv[2])
  /\ idCount(dbfFile, lookupCsv[1].idText) = 0
  /\ Len(zoneResult.zoneRows) = 1

\* C6: hasGeometry iff at least one valid geometry row exists for the id,
\* mapStatus is "mappable" iff hasGeometry, and a lookup id without geometry
\* rows is still in the output with mapStatus "missing_geometry".
C6_Mappability ==
  zpc = "fixed" =>
    /\ \A k \in 1..Len(zoneResult.zoneRows) :
         LET z == zoneResult.zoneRows[k] IN
         /\ z.hasGeometry <=>
              (\E i \in 1..Len(dbfFile) :
                 isDigits(dbfFile[i].idText) /\ dbfFile[i].idText = z.locationId)
         /\ (z.mapStatus = "mappable") <=> z.hasGeometry
         /\ z.mapStatus \in {"mappable", "missing_geometry"}
    /\ \A r \in SeqRange(lookupResult.rows) :
         idCount(dbfFile, r.locationId) = 0 =>
           \E k \in ZoneRecordsFor(r.locationId) :
             zoneResult.zoneRows[k].mapStatus = "missing_geometry"

\* one zone with geometry and one without in the same output
C6_Witness ==
  /\ zpc = "fixed"
  /\ \E k \in 1..Len(zoneResult.zoneRows) :
       zoneResult.zoneRows[k].mapStatus = "mappable"
  /\ \E k \in 1..Len(zoneResult.zoneRows) :
       /\ zoneResult.zoneRows[k].mapStatus = "missing_geometry"
       /\ ~zoneResult.zoneRows[k].hasGeometry

\* ---------------------------------------------------------------------
\* RunPipelineStep.runAll and its input files (src/unnamed/part_006)
\* ---------------------------------------------------------------------
MaxFiles == 2
MaxBatches == 2

\* one DbTasks call; file is the index of the parquet file of a stage call
DbOp(op, file) == [op |-> op, file |-> file]

LookupConditions == {"ok", "missing", "ioError"}
DbfConditions == {"ok", "missing", "badHeader"}
ParquetConditions == {"ok", "unreadable"}

\* the parquet files found under the datasets folder, in path order
ParquetFolders ==
  UNION { [1..n -> ParquetConditions] : n \in 0..MaxFiles }

RunInit ==
  /\ HeapIdle
  /\ ZoneIdle
  /\ pipeline = "none"
  /\ StagedIdle
  /\ HistIdle
  /\ LoaderIdle
  /\ WebIdle
  /\ inputs \in [lookup : LookupConditions, dbf : DbfConditions, parquet : ParquetFolders]
  /\ rpc = "start"
  /\ rfileIdx = 0
  /\ dbOps = <<>>

\* lines 26-31: fs.existsSync of both reference files
RunCheckFiles ==
  /\ rpc = "start"
  /\ rpc' = IF inputs.lookup = "missing" \/ inputs.dbf = "missing"
              THEN "aborted" ELSE "read"
  /\ UNCHANGED <<inputs, rfileIdx, dbOps>>

\* lines 38-40: readAndCheck, readRows and fixData, all before openDb
RunReadReference ==
  /\ rpc = "read"
  /\ rpc' = IF inputs.lookup = "ioError" \/ inputs.dbf = "badHeader"
              THEN "aborted" ELSE "db"
  /\ UNCHANGED <<inputs, rfileIdx, dbOps>>

\* lines 42-45: openDb, runSchemaFile, clearOldPipelineData
RunOpenDbAndClear ==
  /\ rpc = "db"
  /\ dbOps' = dbOps \o <<DbOp("schema", 0), DbOp("clear", 0)>>
  /\ rpc' = "zones"
  /\ UNCHANGED <<inputs, rfileIdx>>

\* lines 46-48: saveZones, makeBoroughTableFromZones, saveIssueNotes
RunSaveZones ==
  /\ rpc = "zones"
  /\ dbOps' = dbOps \o <<DbOp("zones", 0), DbOp("boroughs", 0), DbOp("notes", 0)>>
  /\ rpc' = "find"
  /\ UNCHANGED <<inputs, rfileIdx>>

\* lines 50-53: findParquetFiles; with no file the run notes it and goes on
RunFindParquetFiles ==
  /\ rpc = "find"
  /\ IF Len(inputs.parquet) = 0
       THEN /\ dbOps' = Append(dbOps, DbOp("noParquetNote", 0))
            /\ rpc' = "summary"
            /\ rfileIdx' = rfileIdx
       ELSE /\ dbOps' = dbOps
            /\ rpc' = "files"
            /\ rfileIdx' = 1
  /\ UNCHANGED inputs

\* lines 54-55 and 68-74: #loadOneParquetFile opens the next file;
\* ParquetReader.openFile throws on a file it cannot read and the finally
\* block closes the connection
RunLoadOneParquetFile ==
  /\ rpc = "files"
  /\ rpc' = IF inputs.parquet[rfileIdx] = "unreadable" THEN "aborted" ELSE "rows"
  /\ UNCHANGED <<inputs, rfileIdx, dbOps>>

\* saveTripStageBatch calls made so far for a file
StageOpsOf(ops, file) ==
  Cardinality({ k \in 1..Len(ops) : ops[k] = DbOp("stage", file) })

\* lines 74-77: rows are pushed and the batch is below chunkSize
RunPushRows ==
  /\ rpc = "rows"
  /\ rpc' = "rowsPending"
  /\ UNCHANGED <<inputs, rfileIdx, dbOps>>

\* lines 79-82: the batch reached chunkSize and is saved and emptied
RunSaveTripStageBatch ==
  /\ rpc = "rowsPending"
  /\ StageOpsOf(dbOps, rfileIdx) < MaxBatches
  /\ dbOps' = Append(dbOps, DbOp("stage", rfileIdx))
  /\ rpc' = "rows"
  /\ UNCHANGED <<inputs, rfileIdx>>

\* saveTripStageBatch rejects: runAll throws out of the file loop
RunSaveTripStageBatchFails ==
  /\ rpc = "rowsPending"
  /\ rpc' = "aborted"
  /\ UNCHANGED <<inputs, rfileIdx, dbOps>>

\* lines 85-87 without the save of the rows left in the batch
RunEndOfFileNoLastSave ==
  /\ rpc \in {"rows", "rowsPending"}
  /\ dbOps' = dbOps
  /\ IF rfileIdx < Len(inputs.parquet)
       THEN rpc' = "files" /\ rfileIdx' = rfileIdx + 1
       ELSE rpc' = "clean" /\ rfileIdx' = rfileIdx
  /\ UNCHANGED inputs

\* lines 85-87 and the loop of line 54: the stream of the file ended, the
\* rows left in the batch are saved, then the next file or the cleaning
RunEndOfFile ==
  /\ rpc \in {"rows", "rowsPending"}
  /\ dbOps' = IF rpc = "rowsPending"
                THEN Append(dbOps, DbOp("stage", rfileIdx)) ELSE dbOps
  /\ IF rfileIdx < Len(inputs.parquet)
       THEN rpc' = "files" /\ rfileIdx' = rfileIdx + 1
       ELSE rpc' = "clean" /\ rfileIdx' = rfileIdx
  /\ UNCHANGED inputs

\* line 57
RunMakeCleanTrips ==
  /\ rpc = "clean"
  /\ dbOps' = Append(dbOps, DbOp("clean", 0))
  /\ rpc' = "summary"
  /\ UNCHANGED <<inputs, rfileIdx>>

\* lines 60-62: getRowCounts, #writeRunSummary, return
RunWriteSummary ==
  /\ rpc = "summary"
  /\ rpc' = "done"
  /\ UNCHANGED <<inputs, rfileIdx, dbOps>>

\* the run leaves the heap, the zone files and the trip pipelines alone
runOthers == <<heapVars, zoneVars, pipeline, stagedVars, histVars, loaderVars, webVars>>

NextRun ==
  \/ RunCheckFiles /\ UNCHANGED runOthers
  \/ RunReadReference /\ UNCHANGED runOthers
  \/ RunOpenDbAndClear /\ UNCHANGED runOthers
  \/ RunSaveZones /\ UNCHANGED runOthers
  \/ RunFindParquetFiles /\ UNCHANGED runOthers
  \/ RunLoadOneParquetFile /\ UNCHANGED runOthers
  \/ RunPushRows /\ UNCHANGED runOthers
  \/ RunSaveTripStageBatch /\ UNCHANGED runOthers
  \/ RunSaveTripStageBatchFails /\ UNCHANGED runOthers
  \/ RunEndOfFile /\ UNCHANGED runOthers
  \/ RunMakeCleanTrips /\ UNCHANGED runOthers
  \/ RunWriteSummary /\ UNCHANGED runOthers

SpecRun == RunInit /\ [][NextRun]_vars

\* ---------------------------------------------------------------------
\* Server entry points: start() with a retry loop (src/unnamed/part_017),
\* start() of src/backend/server.js, start() and shutdown() of
\* src/unnamed/part_018, and the Express app of src/src/start_api.js
\* ---------------------------------------------------------------------
maxAttempts == 5
MaxConns == 1

Drafts == {"retry", "plain", "graceful", "express"}

\* the entry points that register SIGTERM / SIGINT handlers
hasHandlers(d) == d \in {"graceful", "express"}

SrvInit ==
  /\ HeapIdle
  /\ ZoneIdle
  /\ pipeline = "none"
  /\ StagedIdle
  /\ HistIdle
  /\ LoaderIdle
  /\ RunIdle
  /\ ApiIdle
  /\ draft \in Drafts
  /\ loadEnv \in BOOLEAN
  /\ draft = "express" => ~loadEnv
  /\ bootPc = IF draft = "express" THEN "listen" ELSE "check"
  /\ attempts = 0
  /\ checkOk = FALSE
  /\ listening = FALSE
  /\ everListened = FALSE
  /\ conns = 0
  /\ closePc = "none"
  /\ timerArmed = FALSE
  /\ poolClosed = FALSE
  /\ exit = "running"
  /\ signalled = FALSE

\* await db.query('SELECT 1') resolves
DbCheckResolves ==
  /\ exit = "running"
  /\ bootPc = "check"
  /\ checkOk' = TRUE
  /\ bootPc' = IF loadEnv THEN "load" ELSE "listen"
  /\ UNCHANGED <<draft, loadEnv, attempts, listening, everListened, conns,
                 closePc, timerArmed, poolClosed, exit, signalled>>

\* a rejected check that start() does not stop on
checkFailedPcGoOn(d) == IF d = "retry" THEN "sleep" ELSE "listen"

\* where start() goes when the check rejects: the retry loop sleeps, the
\* other entry points reach their catch block and process.exit(1)
checkFailedPc(d) == IF d = "retry" THEN "sleep" ELSE "gone"

\* await db.query('SELECT 1') rejects
DbCheckRejects ==
  /\ exit = "running"
  /\ bootPc = "check"
  /\ attempts' = IF draft = "retry" THEN attempts + 1 ELSE attempts
  /\ bootPc' = checkFailedPc(draft)
  /\ exit' = IF checkFailedPc(draft) = "gone" THEN "exit1" ELSE exit
  /\ UNCHANGED <<draft, loadEnv, checkOk, listening, everListened, conns,
                 closePc, timerArmed, poolClosed, signalled>>

\* part_017 lines 21-36: after the sleep the loop tests attempts < maxAttempts
SleepDone ==
  /\ exit = "running"
  /\ bootPc = "sleep"
  /\ IF attempts < maxAttempts
       THEN bootPc' = "check" /\ exit' = exit
       ELSE bootPc' = "gone" /\ exit' = "exit1"
  /\ UNCHANGED <<draft, loadEnv, attempts, checkOk, listening, everListened,
                 conns, closePc, timerArmed, poolClosed, signalled>>

\* await loadData() resolves
LoadDataResolves ==
  /\ exit = "running"
  /\ bootPc = "load"
  /\ bootPc' = "listen"
  /\ UNCHANGED <<draft, loadEnv, attempts, checkOk, listening, everListened,
                 conns, closePc, timerArmed, poolClosed, exit, signalled>>

\* await loadData() rejects: maybeLoadData of part_018 catches it, the
\* other entry points reach the catch block of start()
LoadDataRejects ==
  /\ exit = "running"
  /\ bootPc = "load"
  /\ IF draft = "graceful"
       THEN bootPc' = "listen" /\ exit' = exit
       ELSE bootPc' = "gone" /\ exit' = "exit1"
  /\ UNCHANGED <<draft, loadEnv, attempts, checkOk, listening, everListened,
                 conns, closePc, timerArmed, poolClosed, signalled>>

\* server.listen(...) / app.listen(...)
Listen ==
  /\ exit = "running"
  /\ bootPc = "listen"
  /\ listening' = TRUE
  /\ everListened' = TRUE
  /\ bootPc' = "up"
  /\ UNCHANGED <<draft, loadEnv, attempts, checkOk, conns, closePc, timerArmed,
                 poolClosed, exit, signalled>>

\* a client connects to the listening server
Connect ==
  /\ exit = "running"
  /\ listening
  /\ conns < MaxConns
  /\ conns' = conns + 1
  /\ UNCHANGED <<draft, loadEnv, bootPc, attempts, checkOk, listening,
                 everListened, closePc, timerArmed, poolClosed, exit, signalled>>

\* a connection ends
Disconnect ==
  /\ exit = "running"
  /\ conns > 0
  /\ conns' = conns - 1
  /\ UNCHANGED <<draft, loadEnv, bootPc, attempts, checkOk, listening,
                 everListened, closePc, timerArmed, poolClosed, exit, signalled>>

\* SIGTERM or SIGINT is delivered: shutdown() of part_018 (lines 97-114),
\* stopServer() of start_api.js (lines 205-210, registered right after
\* app.listen), or the default disposition where no handler is registered
Signal ==
  /\ exit = "running"
  /\ ~signalled
  /\ draft = "express" => bootPc = "up"
  /\ signalled' = TRUE
  /\ listening' = FALSE
  /\ IF hasHandlers(draft)
       THEN /\ closePc' = "closing"
            /\ timerArmed' = (draft = "graceful")
            /\ exit' = exit
       ELSE /\ exit' = "killed"
            /\ UNCHANGED <<closePc, timerArmed>>
  /\ UNCHANGED <<draft, loadEnv, bootPc, attempts, checkOk, everListened, conns,
                 poolClosed>>

\* the callback of server.close() starts once no connection is left
CloseCallback ==
  /\ exit = "running"
  /\ closePc = "closing"
  /\ conns = 0
  /\ closePc' = "ending"
  /\ UNCHANGED <<draft, loadEnv, bootPc, attempts, checkOk, listening,
                 everListened, conns, timerArmed, poolClosed, exit, signalled>>

\* await db.end() / analyticsDb.closePool() resolves, then process.exit(0)
PoolEnds ==
  /\ exit = "running"
  /\ closePc = "ending"
  /\ poolClosed' = TRUE
  /\ closePc' = "done"
  /\ listening' = FALSE
  /\ exit' = "exit0"
  /\ UNCHANGED <<draft, loadEnv, bootPc, attempts, checkOk, everListened, conns,
                 timerArmed, signalled>>

\* part_018 lines 110-113: the 10 s timer fires, process.exit(1)
ForcedExit ==
  /\ exit = "running"
  /\ timerArmed
  /\ timerArmed' = FALSE
  /\ listening' = FALSE
  /\ exit' = "exit1"
  /\ UNCHANGED <<draft, loadEnv, bootPc, attempts, checkOk, everListened, conns,
                 closePc, poolClosed, signalled>>

srvOthers == <<heapVars, zoneVars, pipeline, stagedVars, histVars, loaderVars,
               runVars, apiVars>>

NextSrv ==
  \/ DbCheckResolves /\ UNCHANGED srvOthers
  \/ DbCheckRejects /\ UNCHANGED srvOthers
  \/ SleepDone /\ UNCHANGED srvOthers
  \/ LoadDataResolves /\ UNCHANGED srvOthers
  \/ LoadDataRejects /\ UNCHANGED srvOthers
  \/ Listen /\ UNCHANGED srvOthers
  \/ Connect /\ UNCHANGED srvOthers
  \/ Disconnect /\ UNCHANGED srvOthers
  \/ Signal /\ UNCHANGED srvOthers
  \/ CloseCallback /\ UNCHANGED srvOthers
  \/ PoolEnds /\ UNCHANGED srvOthers
  \/ ForcedExit /\ UNCHANGED srvOthers

SpecSrv == SrvInit /\ [][NextSrv]_vars

\* ---------------------------------------------------------------------
\* ReadApiFilters (src/unnamed/part_008) behind withFilters of
\* src/src/start_api.js
\* ---------------------------------------------------------------------
\* null, and a value read through the prototype chain (a function or
\* Object.prototype itself)
JsNull == "<null>"
Inherited == "<inherited>"

\* own keys and values of BOROUGH_TEXT and PAYMENT_TEXT
BOROUGH_KEYS == {"manhattan", "brooklyn", "queens", "bronx", "staten_island", "all"}

BOROUGH_TEXT ==
  [k \in BOROUGH_KEYS |->
     CASE k = "manhattan" -> "Manhattan"
       [] k = "brooklyn" -> "Brooklyn"
       [] k = "queens" -> "Queens"
       [] k = "bronx" -> "Bronx"
       [] k = "staten_island" -> "Staten Island"
       [] OTHER -> JsNull]

PAYMENT_KEYS == {"credit_card", "cash", "no_charge", "all"}

PAYMENT_TEXT == [k \in PAYMENT_KEYS |-> IF k = "all" THEN JsNull ELSE k]

TIME_SET == {"all", "peak", "off_peak", "morning_rush", "evening_rush"}
DATE_SET == {"7d", "30d", "quarter", "ytd"}

\* names every object literal inherits from Object.prototype
ObjectPrototypeKeys ==
  {"constructor", "toString", "valueOf", "hasOwnProperty", "__proto__"}

\* key in obj: own and inherited properties alike
inObject(key, ownKeys) == key \in ownKeys \/ key \in ObjectPrototypeKeys

\* obj[key] for a key that passed the in test
getProperty(obj, ownKeys, key) ==
  IF key \in ownKeys THEN obj[key] ELSE Inherited

\* value || fallback: a missing parameter and "" are both falsy
orElseText(value, fallback) == IF value = "" THEN fallback ELSE value

truthy(value) == value # "" /\ value # JsNull

readFromQuery(q) ==
  LET dateRange == orElseText(q.date_range, "30d")
      borough == orElseText(q.borough, "all")
      paymentType == orElseText(q.payment_type, "all")
      timeOfDay == orElseText(q.time_of_day, "all")
  IN IF \/ dateRange \notin DATE_SET
        \/ ~inObject(borough, BOROUGH_KEYS)
        \/ ~inObject(paymentType, PAYMENT_KEYS)
        \/ timeOfDay \notin TIME_SET
       THEN [ok |-> FALSE, filters |-> NoFilters]
       ELSE [ok |-> TRUE,
             filters |-> [dateRange |-> dateRange,
                          borough |-> getProperty(BOROUGH_TEXT, BOROUGH_KEYS, borough),
                          paymentType |-> getProperty(PAYMENT_TEXT, PAYMENT_KEYS, paymentType),
                          timeOfDay |-> timeOfDay]]

\* the params array of makeWhereSql
makeWhereSql(f) ==
  (IF truthy(f.borough) THEN <<f.borough>> ELSE <<>>)
  \o (IF truthy(f.paymentType) THEN <<f.paymentType>> ELSE <<>>)
  \o (IF f.timeOfDay \in {"morning_rush", "evening_rush"}
        THEN <<f.timeOfDay>> ELSE <<>>)

\* query strings of a request: nothing, allowed values, values that are no
\* filter at all, and names of Object.prototype
DateTexts == {"", "7d", "ytd", "90d"}
BoroughTexts == {"", "all", "queens", "atlantis", "toString"}
PaymentTexts == {"", "cash", "bitcoin", "constructor"}
TimeTexts == {"", "peak", "morning_rush", "noon"}

ApiInit ==
  /\ HeapIdle
  /\ ZoneIdle
  /\ pipeline = "none"
  /\ StagedIdle
  /\ HistIdle
  /\ LoaderIdle
  /\ RunIdle
  /\ SrvIdle
  /\ query \in [date_range : DateTexts, borough : BoroughTexts,
                payment_type : PaymentTexts, time_of_day : TimeTexts]
  /\ reqPc = "received"
  /\ status = 0
  /\ handlerRan = FALSE
  /\ filters = NoFilters
  /\ sqlParams = <<>>

\* withFilters lines 46-55, up to the await of the handler's query
WithFilters ==
  /\ reqPc = "received"
  /\ LET r == readFromQuery(query) IN
       IF ~r.ok
         THEN /\ status' = 400
              /\ reqPc' = "replied"
              /\ UNCHANGED <<handlerRan, filters, sqlParams>>
         ELSE /\ handlerRan' = TRUE
              /\ filters' = r.filters
              /\ sqlParams' = makeWhereSql(r.filters)
              /\ reqPc' = "querying"
              /\ status' = status
  /\ UNCHANGED query

\* the handler's query resolves: res.json(...)
QueryResolves ==
  /\ reqPc = "querying"
  /\ status' = 200
  /\ reqPc' = "replied"
  /\ UNCHANGED <<query, handlerRan, filters, sqlParams>>

\* the handler's query rejects: next(err), answered by lines 196-199
QueryRejects ==
  /\ reqPc = "querying"
  /\ status' = 500
  /\ reqPc' = "replied"
  /\ UNCHANGED <<query, handlerRan, filters, sqlParams>>

apiOthers == <<heapVars, zoneVars, pipeline, stagedVars, histVars, loaderVars,
               runVars, srvVars>>

NextApi ==
  \/ WithFilters /\ UNCHANGED apiOthers
  \/ QueryResolves /\ UNCHANGED apiOthers
  \/ QueryRejects /\ UNCHANGED apiOthers

SpecApi == ApiInit /\ [][NextApi]_vars

\* ---------------------------------------------------------------------
\* Properties of the trip pipelines
\* ---------------------------------------------------------------------
RunDone ==
  \/ pipeline = "staged" /\ spc = "done"
  \/ pipeline = "stream" /\ lpc = "done"

RunFailed ==
  \/ pipeline = "staged" /\ spc = "failed"
  \/ pipeline = "stream" /\ lpc = "failed"

\* the run ended and every flush it attempted succeeded
RunDoneClean == RunDone /\ ~flushFailed

Arrivals == 1..Len(arrived)

SourceFileOf(i) == IF pipeline = "staged" THEN fileOrder[arrived[i].file] ELSE 1

\* the i-th raw row to arrive is in cleaned output
InCleaned(i) ==
  IF pipeline = "staged"
    THEN \E c \in cleaned :
           c.sourceFile = SourceFileOf(i) /\ c.sourceRowNum = arrived[i].row
    ELSE \E k \in 1..Len(dbTrips) : dbTrips[k].rowNum = arrived[i].row

\* the quality log has an entry of this issue type for the i-th raw row
HasLog(i, issueType) ==
  IF pipeline = "staged"
    THEN \E l \in qlog :
           /\ l.sourceFile = SourceFileOf(i)
           /\ l.sourceRowNum = arrived[i].row
           /\ l.issueType = issueType
    ELSE \E k \in 1..Len(dbLogs) :
           dbLogs[k].row_num = arrived[i].row /\ dbLogs[k].err_type = issueType

NaturalKey(raw) ==
  <<raw.pickup, raw.dropoff, raw.pu, raw.do, raw.passengers, raw.distance,
    raw.fare, raw.tip, raw.total>>

SameKey(i, j) == NaturalKey(arrived[i].raw) = NaturalKey(arrived[j].raw)

FirstOfKey(i) == \A h \in 1..(i - 1) : ~SameKey(h, i)

NonDuplicate(i) == \A j \in Arrivals : j # i => ~SameKey(i, j)

\* the hard exclusion conditions as the raw values show them
HardDefect(raw) ==
  \/ IsMarker(raw.pickup)
  \/ IsMarker(raw.dropoff)
  \/ IsMarker(raw.pu)
  \/ IsMarker(raw.do)
  \/ IsMarker(raw.distance)
  \/ IsMarker(raw.fare)
  \/ IsMarker(raw.total)
  \/ raw.distance < 0
  \/ raw.fare < 0
  \/ raw.total < 0
  \/ raw.dropoff <= raw.pickup

\* C2: when a run has ended, of raw rows with identical natural keys only
\* the first to arrive can be in cleaned output and is not logged as a
\* duplicate; every later one is absent from cleaned output and has a
\* DUPLICATE_TRIP entry in the quality log.
C2_FirstKeptLaterLogged ==
  RunDoneClean =>
    \A i, j \in Arrivals :
      (i < j /\ FirstOfKey(i) /\ SameKey(i, j)) =>
        /\ ~HasLog(i, "DUPLICATE_TRIP")
        /\ ~InCleaned(j)
        /\ HasLog(j, "DUPLICATE_TRIP")

\* C3: when a run has ended, a raw row that is no duplicate of another and
\* has a hard defect is absent from cleaned output and has a TRIP_EXCLUDED
\* entry in the quality log.
C3_HardDefectExcluded ==
  RunDoneClean =>
    \A i \in Arrivals :
      (NonDuplicate(i) /\ HardDefect(arrived[i].raw)) =>
        /\ ~InCleaned(i)
        /\ HasLog(i, "TRIP_EXCLUDED")

\* C4: every record of the cleaned trip set has a duration above zero.
C4_DurationPositive ==
  /\ \A c \in cleaned : c.tripDurationMs # Null /\ c.tripDurationMs > 0
  /\ \A k \in 1..Len(dbTrips) :
       dbTrips[k].duration_min # Null /\ dbTrips[k].duration_min > 0

\* C7: when a run has ended, every flagged-trip record and every soft-flag
\* log entry refers to a source row that is in the cleaned trip set.
C7_FlagsOnCleanedRows ==
  RunDoneClean =>
    /\ \A f \in flagged :
         \E c \in cleaned :
           c.sourceFile = f.sourceFile /\ c.sourceRowNum = f.sourceRowNum
    /\ \A k \in 1..Len(dbErrors) :
         \E t \in 1..Len(dbTrips) : dbTrips[t].rowNum = dbErrors[k].rowNum
    /\ \A k \in 1..Len(dbLogs) :
         dbLogs[k].action = "retained" =>
           \E t \in 1..Len(dbTrips) : dbTrips[t].rowNum = dbLogs[k].row_num

\* C8: for every cleaned record the fare per mile is null exactly when the
\* distance is 0 and is finite otherwise, and the revenue per minute is
\* never infinite or NaN.
C8_RatiosGuarded ==
  /\ \A c \in cleaned :
       /\ c.farePerMile.null <=> c.tripDistance = 0
       /\ ~c.farePerMile.null => IsFinite(c.farePerMile)
       /\ c.revenuePerMinute.null \/ IsFinite(c.revenuePerMinute)
  /\ \A k \in 1..Len(dbTrips) :
       /\ dbTrips[k].cost_per_mile = Null <=> dbTrips[k].distance = 0
       /\ dbTrips[k].cost_per_mile \notin {PInf, NaNv}
       /\ dbTrips[k].money_per_min \notin {PInf, NaNv}

\* C9: a batch flush is atomic: no flush attempt fails after persisting
\* part of its batch, a failed flush attempt leaves the run failed, and no
\* record is persisted twice.
C9_FlushAtomic ==
  /\ ~partialFlush
  /\ flushFailed => RunFailed
  /\ \A a, b \in 1..Len(dbTrips) : dbTrips[a].rowNum = dbTrips[b].rowNum => a = b

\* the records whose processing has started and not finished
InProcessing ==
  inProcess \cup { <<1, f.caller>> : f \in { g \in flushes : g.caller # 0 } }

\* C10: while a record is in processing, also while the flush it triggered
\* awaits I/O, no further raw record starts processing; so at most one
\* record is in processing at any time.
C10_OneRecordAtATime ==
  [][InProcessing # {} => (arrived' = arrived /\ InProcessing' \subseteq InProcessing)]_vars

\* a 'data' handler is suspended in the second INSERT of the flush its
\* record triggered, after an earlier record was handled in full
C10_Witness ==
  \E f \in flushes :
    f.caller > 1 /\ f.step = "errors" /\ f.applied /\ InProcessing = {<<1, f.caller>>}

\* ---------------------------------------------------------------------
\* C11 .. C20
\* ---------------------------------------------------------------------
\* the key under which the stream loader files the i-th raw row
LoaderKeyOf(i) == buildTripKey(normaliseRow(arrived[i].raw, arrived[i].row).trip)

LoaderExcluded(i) == normaliseRow(arrived[i].raw, arrived[i].row).excluded

\* the trips the stream loader has accepted: batched or persisted
AcceptedTrips == SeqRange(tripBatch) \cup SeqRange(dbTrips)

\* C11: the set of seen keys never loses a key, at a flush or anywhere
\* else: the key of every row that got past exclusion is still in it, so no
\* two accepted rows of one run share a key, across batches and files.
C11_SeenKeysOnlyGrow ==
  /\ [](/\ pipeline = "stream" =>
             \A i \in Arrivals : ~LoaderExcluded(i) => LoaderKeyOf(i) \in globalSeen
        /\ \A t, u \in AcceptedTrips :
             buildTripKey(t) = buildTripKey(u) => t.rowNum = u.rowNum
        /\ \A c, d \in cleaned : samePartition(c, d) => c = d)
  /\ [][globalSeen \subseteq globalSeen']_vars

\* the last row to arrive repeats the key of a trip persisted by an earlier
\* batch flush and was counted as a duplicate
C11_Witness ==
  /\ pipeline = "stream"
  /\ lpc = "streaming"
  /\ flushes = {}
  /\ tripBatch = <<>>
  /\ totals.totalDupes > 0
  /\ Len(arrived) > 0
  /\ ~LoaderExcluded(Len(arrived))
  /\ ~InCleaned(Len(arrived))
  /\ \E k \in 1..Len(dbTrips) :
       /\ dbTrips[k].rowNum < arrived[Len(arrived)].row
       /\ buildTripKey(dbTrips[k]) = LoaderKeyOf(Len(arrived))

\* a required input is missing or cannot be read
InputFatal ==
  \/ inputs.lookup # "ok"
  \/ inputs.dbf # "ok"
  \/ Len(inputs.parquet) = 0
  \/ \E k \in 1..Len(inputs.parquet) : inputs.parquet[k] = "unreadable"

\* C12: when a required input is missing or unreadable, the run makes no
\* persistence mutation at all: nothing is cleared and nothing is written.
C12_AbortBeforeMutation == InputFatal => dbOps = <<>>

\* a field of the raw row holds text that does not parse as its type
RowError(raw) ==
  \E v \in {raw.pickup, raw.dropoff, raw.pu, raw.do, raw.distance, raw.fare,
            raw.tip, raw.total} : v \in {Garbage, BadDate, InfText}

\* the quality log has some entry for the i-th raw row
HasSomeLog(i) ==
  IF pipeline = "staged"
    THEN \E l \in qlog :
           l.sourceFile = SourceFileOf(i) /\ l.sourceRowNum = arrived[i].row
    ELSE \E k \in 1..Len(dbLogs) : dbLogs[k].row_num = arrived[i].row

\* the run has failed on a batch that the database refuses for the value
\* of one of its rows
RowCausedFailure ==
  \/ pipeline = "staged" /\ spc = "failed" /\ batchRejected(batch)
  \/ pipeline = "stream" /\ lpc = "failed" /\ tripsRejected(tripBatch)

\* C13: an error in a single row never aborts the run, and when the run
\* has ended every row with such an error has an entry in the quality log.
C13_RowErrorsCaught ==
  /\ ~RowCausedFailure
  /\ RunDoneClean => \A i \in Arrivals : RowError(arrived[i].raw) => HasSomeLog(i)

\* the stream loader accepted the i-th raw row into tripBatch
Accepted(i) ==
  /\ ~LoaderExcluded(i)
  /\ \A h \in 1..(i - 1) : LoaderExcluded(h) \/ LoaderKeyOf(h) # LoaderKeyOf(i)

\* the anomaly types of the i-th raw row once accepted
AnomaliesOf(i) ==
  checkAnomalies(enrichTrip(normaliseRow(arrived[i].raw, arrived[i].row).trip))

\* the number of entries the loader put into logBatch for the i-th raw row
LogsBatchedFor(i) ==
  Len(normaliseRow(arrived[i].raw, arrived[i].row).logs)
    + (IF Accepted(i) THEN Len(AnomaliesOf(i)) ELSE 0)

TimesIn(table, rowOf(_), rowNo) ==
  Cardinality({ k \in 1..Len(table) : rowOf(table[k]) = rowNo })

TripRowOf(t) == t.rowNum
LogRowOf(l) == l.row_num

\* C14: when a run completes, every record that went into an output batch
\* is in persistence exactly once and no batch is left unflushed, the last
\* partial batch included.
C14_AllFlushedOnce ==
  RunDone =>
    IF pipeline = "staged"
      THEN /\ batch = <<>>
           /\ \A i \in Arrivals :
                \E r \in staging :
                  r.sourceFile = SourceFileOf(i) /\ r.sourceRowNum = arrived[i].row
      ELSE /\ tripBatch = <<>> /\ errorBatch = <<>> /\ logBatch = <<>>
           /\ \A i \in Arrivals :
                /\ TimesIn(dbTrips, TripRowOf, arrived[i].row)
                     = (IF Accepted(i) THEN 1 ELSE 0)
                /\ TimesIn(dbErrors, TripRowOf, arrived[i].row)
                     = (IF Accepted(i) THEN Len(AnomaliesOf(i)) ELSE 0)
                /\ TimesIn(dbLogs, LogRowOf, arrived[i].row) = LogsBatchedFor(i)

HeapNodes(h) == { h[k] : k \in 1..Len(h) }

\* C15: a node made from a non-finite score carries score negative
\* infinity, and adding an item with a non-finite score to a full selector
\* leaves every entry with a finite score in place.
C15_NonFiniteNeverEvicts ==
  /\ [](\A n \in HeapNodes(heap) : n.item.metric = NotFinite => n.score = NegInf)
  /\ [][(/\ Len(added') = Len(added) + 1
         /\ added'[Len(added')].metric = NotFinite
         /\ limit > 0
         /\ Len(heap) = limit)
        => { n \in HeapNodes(heap) : n.score # NegInf } \subseteq HeapNodes(heap')]_vars

\* a full selector of finite scores has just been offered a non-finite one
C15_Witness ==
  /\ limit > 0
  /\ Len(added) > limit
  /\ added[Len(added)].metric = NotFinite
  /\ Len(heap) = limit
  /\ \A n \in HeapNodes(heap) : n.item.metric # NotFinite

\* C16: when a run has ended, every soft-flag match on a cleaned record has
\* an entry in the quality log for that record and that rule, with action
\* "flagged".
C16_FlagsLogged ==
  RunDoneClean =>
    /\ \A f \in flaggedRows(cleaned) :
         \E l \in qlog :
           /\ l.sourceFile = f.sourceFile
           /\ l.sourceRowNum = f.sourceRowNum
           /\ l.issueType = f.anomalyType
           /\ l.action = "flagged"
    /\ \A k \in 1..Len(dbTrips) :
         \A a \in SeqRange(checkAnomalies(dbTrips[k])) :
           \E j \in 1..Len(dbLogs) :
             /\ dbLogs[j].row_num = dbTrips[k].rowNum
             /\ dbLogs[j].err_type = a
             /\ dbLogs[j].action = "flagged"

\* the positions of the lookup lines that carry the id
LinesOf(id) == { i \in 1..Len(lookupCsv) : lookupCsv[i].idText = id }

SurvivingLinesOf(id) == { i \in LinesOf(id) : LineSurvives(lookupCsv[i]) }

Lowest(S) == CHOOSE i \in S : \A j \in S : i <= j

DupIdNotes(id) ==
  { k \in 1..Len(lookupResult.notes) :
      /\ lookupResult.notes[k].issueType = "DUPLICATE_LOCATION_ID"
      /\ lookupResult.notes[k].recordKey = [kind |-> "id", n |-> id] }

CarriesLine(id, i) ==
  \E k \in ZoneRecordsFor(id) :
    /\ zoneResult.zoneRows[k].borough = lookupCsv[i].borough
    /\ zoneResult.zoneRows[k].zone = lookupCsv[i].zone
    /\ zoneResult.zoneRows[k].serviceZone = lookupCsv[i].serviceZone

\* C17 as stated: when several lookup lines share an id, the ZoneRecord of
\* the id carries the texts of the first of them in input order and every
\* later one is logged DUPLICATE_LOCATION_ID.
C17_FirstLineWins ==
  zpc = "fixed" =>
    \A id \in LookupIdTexts \ {BadId} :
      Cardinality(LinesOf(id)) > 1 =>
        /\ CarriesLine(id, Lowest(LinesOf(id)))
        /\ Cardinality(DupIdNotes(id)) = Cardinality(LinesOf(id)) - 1

\* C17 amended: among the lookup lines that pass validation, the first line
\* of an id gives the ZoneRecord its texts and every later one is logged
\* DUPLICATE_LOCATION_ID; lines excluded by validation take no part.
C17_FirstSurvivingLineWins ==
  zpc = "fixed" =>
    \A id \in LookupIdTexts \ {BadId} :
      SurvivingLinesOf(id) # {} =>
        /\ Cardinality(ZoneRecordsFor(id)) = 1
        /\ \A k \in ZoneRecordsFor(id) :
             LET l == lookupCsv[Lowest(SurvivingLinesOf(id))] IN
             /\ zoneResult.zoneRows[k].borough = l.borough
             /\ zoneResult.zoneRows[k].zone = l.zone
             /\ zoneResult.zoneRows[k].serviceZone = l.serviceZone
        /\ Cardinality(DupIdNotes(id)) = Cardinality(SurvivingLinesOf(id)) - 1

\* two valid lines of one id with different boroughs were reconciled
C17_Witness ==
  /\ zpc = "fixed"
  /\ Len(lookupCsv) = 2
  /\ lookupCsv[1].idText = lookupCsv[2].idText
  /\ LineSurvives(lookupCsv[1]) /\ LineSurvives(lookupCsv[2])
  /\ lookupCsv[1].borough # lookupCsv[2].borough
  /\ Cardinality(DupIdNotes(lookupCsv[1].idText)) = 1

\* the raw row names a pickup or dropoff zone that the dimension lacks
Unresolved(raw) ==
  \E z \in {raw.pu, raw.do} : ~IsMarker(z) /\ z \notin ZoneDimension

\* C18: a trip with a location id that does not resolve in the zone
\* dimension is not turned away for it: the persistence layer takes the
\* batch that holds it, and when the run has ended the trip is in cleaned
\* output, its zone labels null, unless it has a hard defect or is a
\* duplicate.
C18_UnresolvedZoneKept ==
  /\ pipeline = "stream" => ~fkRejected(tripBatch)
  /\ RunDoneClean =>
       \A i \in Arrivals :
         (Unresolved(arrived[i].raw) /\ NonDuplicate(i) /\ ~HardDefect(arrived[i].raw)) =>
           /\ InCleaned(i)
           /\ \A c \in cleaned :
                (c.sourceFile = SourceFileOf(i) /\ c.sourceRowNum = arrived[i].row) =>
                  /\ c.pickupBorough = Null <=> c.puLocationId \notin ZoneDimension
                  /\ c.dropoffBorough = Null <=> c.doLocationId \notin ZoneDimension

\* occurrences of an id among the rows of the geometry metadata file
GeometryOccurrences(id) ==
  Cardinality({ i \in 1..Len(dbfFile) : dbfFile[i].idText = id })

DupShapeNotesFor(id) ==
  { k \in 1..Len(zoneResult.notes) :
      /\ zoneResult.notes[k].issueType = "DUPLICATE_SHAPE_METADATA"
      /\ zoneResult.notes[k].recordKey = [kind |-> "id", n |-> id] }

\* C19: for every locationId that occurs c > 1 times in the geometry metadata
\* the reconciler emits exactly one DUPLICATE_SHAPE_METADATA note for that id,
\* reporting c - 1 removed records, and the ZoneRecord of that id (one, when
\* the lookup has a surviving row for it) has geometryRecordCount = c and
\* hasGeometry = true.
C19_DuplicateGeometryCounted ==
  zpc = "fixed" =>
    \A id \in DbfIdTexts \ {BadId} :
      LET c == GeometryOccurrences(id) IN
      c > 1 =>
        /\ Cardinality(DupShapeNotesFor(id)) = 1
        /\ \A k \in DupShapeNotesFor(id) :
             /\ zoneResult.notes[k].removed = c - 1
             /\ zoneResult.notes[k].dataset = "taxi_zones.dbf"
        /\ Cardinality(ZoneRecordsFor(id)) <= 1
        /\ SurvivingLinesOf(id) # {} => Cardinality(ZoneRecordsFor(id)) = 1
        /\ \A k \in ZoneRecordsFor(id) :
             /\ zoneResult.zoneRows[k].geometryRecordCount = c
             /\ zoneResult.zoneRows[k].hasGeometry

C19_Witness ==
  /\ zpc = "fixed"
  /\ GeometryOccurrences(1) = 2
  /\ \E k \in ZoneRecordsFor(1) : zoneResult.zoneRows[k].geometryRecordCount = 2
  /\ \E k \in DupShapeNotesFor(1) : zoneResult.notes[k].removed = 1

\* the id text reads as a positive integer
PositiveId(idText) == isDigits(idText) /\ idText > 0

InvalidIdNote(notes, dataset, kind, n) ==
  \E k \in 1..Len(notes) :
    /\ notes[k].issueType = "INVALID_LOCATION_ID"
    /\ notes[k].dataset = dataset
    /\ notes[k].recordKey = [kind |-> kind, n |-> n]
    /\ notes[k].action = "excluded"

\* C20: every lookup or geometry row whose locationId is not a positive
\* integer is excluded and logged as INVALID_LOCATION_ID, so every ZoneRecord
\* of the output has a positive integer locationId.
C20_OnlyPositiveIds ==
  zpc = "fixed" =>
    /\ \A i \in 1..Len(lookupCsv) :
         ~PositiveId(lookupCsv[i].idText) =>
           /\ InvalidIdNote(lookupResult.notes, "taxi_zone_lookup.csv", "line", i + 1)
           /\ ZoneRecordsFor(lookupCsv[i].idText) = {}
    /\ \A i \in 1..Len(dbfFile) :
         ~PositiveId(dbfFile[i].idText) =>
           InvalidIdNote(zoneResult.notes, "taxi_zones.dbf", "row", i)
    /\ \A k \in 1..Len(zoneResult.zoneRows) :
         PositiveId(zoneResult.zoneRows[k].locationId)

\* every non-root entry's score is at least its parent's
MinHeap(h) ==
  \A i \in 1..(Len(h) - 1) : At(h, parentIndex(i)).score <= At(h, i).score

\* C24: after any sequence of add calls on a selector of capacity k, the
\* selector holds at most k entries and every non-root entry's score is
\* greater than or equal to its parent's, so the root holds the minimum.
C24_BoundedMinHeap ==
  /\ Len(heap) <= limit
  /\ MinHeap(heap)
  /\ \A n \in HeapNodes(heap) : Len(heap) > 0 => At(heap, 0).score <= n.score

\* a full selector of three entries after a replacement of the root
C24_Witness ==
  /\ limit = 3
  /\ Len(heap) = 3
  /\ Len(added) = MaxN
  /\ \E i \in 1..Len(added) : \A n \in HeapNodes(heap) : n.item.id # i
  /\ At(heap, 0).score < At(heap, 1).score

\* C25 as stated: the array returned by getHighToLow is strictly descending
\* by score.
C25_StrictlyDescending ==
  outValid =>
    \A i \in 1..(Len(out) - 1) : ScoresOf(out)[i] > ScoresOf(out)[i + 1]

\* C25 amended: the array returned by getHighToLow holds every entry of the
\* selector and is descending by score with equal scores adjacent: each
\* element's score is greater than or equal to the score of the next.
C25_Descending ==
  outValid =>
    /\ Len(out) = Len(heap)
    /\ \A i \in 1..(Len(out) - 1) : ScoresOf(out)[i] >= ScoresOf(out)[i + 1]

\* two retained items share a score
C25_Witness ==
  /\ outValid
  /\ Len(out) = 3
  /\ ScoresOf(out)[1] > ScoresOf(out)[2]
  /\ ScoresOf(out)[2] = ScoresOf(out)[3]

\* C26: getHighToLow does not change the selector: it leaves the same
\* entries in the same valid min-heap, so a second call in a row returns the
\* same sequence and a later add starts from the heap it would have had.
C26_GetDescendingPure ==
  /\ [][(outValid' /\ added' = added) =>
          /\ heap' = heap
          /\ MinHeap(heap')
          /\ (outValid => out' = out)]_vars
  /\ [](outValid => out = getHighToLow(heap).out)

\* a second call on a selector that holds entries
C26_Witness ==
  /\ outValid
  /\ Len(heap) = 3
  /\ Len(out) = 3
  /\ Len(added) = MaxN

\* the log entries of one issue type written for a staged row
StagedLogs(r, issueType) ==
  { l \in qlog : /\ l.sourceFile = r.sourceFile
                 /\ l.sourceRowNum = r.sourceRowNum
                 /\ l.issueType = issueType }

StagedInCleaned(r) ==
  \E c \in cleaned : c.sourceFile = r.sourceFile /\ c.sourceRowNum = r.sourceRowNum

LogsOfType(issueType) == { l \in qlog : l.issueType = issueType }

\* C27: after the cleaning step every staged row is in exactly one class:
\* in cleaned output with no exclusion entry, or not in cleaned output with
\* exactly one DUPLICATE_TRIP entry, or not in cleaned output with exactly
\* one TRIP_EXCLUDED entry; so staged = cleaned + DUPLICATE_TRIP +
\* TRIP_EXCLUDED in number.
C27_ThreeClasses ==
  (pipeline = "staged" /\ spc = "done") =>
    /\ \A r \in staging :
         LET nd == Cardinality(StagedLogs(r, "DUPLICATE_TRIP"))
             ne == Cardinality(StagedLogs(r, "TRIP_EXCLUDED"))
         IN \/ StagedInCleaned(r) /\ nd = 0 /\ ne = 0
            \/ ~StagedInCleaned(r) /\ nd = 1 /\ ne = 0
            \/ ~StagedInCleaned(r) /\ nd = 0 /\ ne = 1
    /\ Cardinality(staging) =
         Cardinality(cleaned) + Cardinality(LogsOfType("DUPLICATE_TRIP"))
           + Cardinality(LogsOfType("TRIP_EXCLUDED"))

\* one staged row of each class, the duplicate being a row with a hard defect
C27_Witness ==
  /\ pipeline = "staged"
  /\ spc = "done"
  /\ Cardinality(staging) = 3
  /\ Cardinality(cleaned) = 1
  /\ \E r \in staging :
       /\ r.tripDistance < 0
       /\ r.tripDistance # Null
       /\ StagedLogs(r, "DUPLICATE_TRIP") # {}
  /\ LogsOfType("TRIP_EXCLUDED") # {}

\* C28: at every point of an ingestion run each in-memory output batch
\* (cleaned trips, flagged records, log entries) holds at most chunk-size
\* records, whatever the number of rows and of excluded or duplicate rows.
C28_BatchesBounded ==
  /\ pipeline = "staged" => Len(batch) <= chunkSize
  /\ pipeline = "stream" =>
       /\ Len(tripBatch) <= CHUNK_SIZE
       /\ Len(errorBatch) <= CHUNK_SIZE
       /\ Len(logBatch) <= CHUNK_SIZE

OpsAt(op) == { k \in 1..Len(dbOps) : dbOps[k].op = op }

\* a step that makes no saveTripStageBatch call
NoNewStage ==
  \A k \in 1..Len(dbOps') :
    (dbOps'[k].op = "stage") => (k <= Len(dbOps) /\ dbOps[k] = dbOps'[k])

\* C29: the cleaning step starts only after the zone dimension has been
\* saved and after the final batch of every input file has been staged;
\* the files are staged strictly one after another and no trip batch is
\* staged once cleaning has started.
C29_CleaningAfterStaging ==
  /\ [](\A c \in OpsAt("clean") :
          /\ \E z \in OpsAt("zones") : z < c
          /\ \A t \in OpsAt("stage") : t < c
          /\ rfileIdx = Len(inputs.parquet)
          /\ \A f \in 1..Len(inputs.parquet) : inputs.parquet[f] = "ok")
  /\ [](\A t1, t2 \in OpsAt("stage") :
          t1 < t2 => dbOps[t1].file <= dbOps[t2].file)
  /\ [](\A t \in OpsAt("stage") :
          dbOps[t].file <= rfileIdx /\ \E z \in OpsAt("zones") : z < t)
  /\ [][(rpc = "rowsPending" /\ rpc' \notin {"rowsPending", "aborted"})
          => dbOps' = Append(dbOps, DbOp("stage", rfileIdx))]_vars
  /\ [][(rpc \in {"clean", "summary", "done"}) => NoNewStage]_vars

\* both files were staged, the second one ending on a batch left over, and
\* the cleaning step has run
C29_Witness ==
  /\ rpc = "done"
  /\ Len(inputs.parquet) = 2
  /\ StageOpsOf(dbOps, 1) = 2
  /\ StageOpsOf(dbOps, 2) = 1
  /\ OpsAt("clean") # {}

\* C30: at the end of every ingestion run the summary counters account for
\* every raw row exactly once: total raw rows = excluded + duplicates +
\* flagged + clean, also for inputs longer than the row limit and for rows
\* whose processing raised an error.
C30_CountersAddUp ==
  (pipeline = "stream" /\ lpc = "done") =>
    totals.totalRaw =
      totals.totalExcluded + totals.totalDupes
        + totals.totalAnomalous + totals.totalClean

\* the entry points whose start() checks the database first
CheckingDrafts == {"retry", "plain", "graceful"}

\* C21: the HTTP server starts accepting connections only after a database
\* connectivity check has succeeded; if the check never succeeds (after at
\* most 5 attempts in the retrying start-up) the process exits with code 1
\* without ever listening.
C21_ListenAfterCheck ==
  draft \in CheckingDrafts =>
    /\ everListened => checkOk
    /\ listening => checkOk
    /\ attempts <= maxAttempts
    /\ (attempts = maxAttempts /\ ~checkOk) => bootPc \in {"sleep", "gone"}
    /\ (~checkOk /\ bootPc = "gone") => (exit = "exit1" /\ ~everListened)
    /\ (~checkOk /\ exit # "running" /\ ~signalled) => exit = "exit1"

\* the retry loop used up its five attempts and the process exited with 1
C21_Witness ==
  /\ draft = "retry"
  /\ attempts = maxAttempts
  /\ ~checkOk
  /\ exit = "exit1"
  /\ ~everListened
  /\ ~signalled

\* C22: on SIGTERM or SIGINT the server stops accepting new connections
\* and the database pool is closed before the process exits, on every path
\* by which the process terminates after the signal.
C22_GracefulShutdown ==
  /\ signalled => ~listening
  /\ (signalled /\ exit # "running") => poolClosed

\* the value of the parameter, or its default, is one of the allowed ones
QueryAllowed(q) ==
  /\ orElseText(q.date_range, "30d") \in DATE_SET
  /\ orElseText(q.borough, "all") \in BOROUGH_KEYS
  /\ orElseText(q.payment_type, "all") \in PAYMENT_KEYS
  /\ orElseText(q.time_of_day, "all") \in TIME_SET

BoroughLabels == { BOROUGH_TEXT[k] : k \in BOROUGH_KEYS }
PaymentLabels == { PAYMENT_TEXT[k] : k \in PAYMENT_KEYS }

\* C23: a request whose date_range, borough, payment_type or time_of_day
\* value is not one of the allowed values is answered with HTTP 400 and its
\* handler is never invoked, so only the allowed values or their mapped
\* labels reach the WHERE-clause builder and the query parameters.
C23_FiltersValidated ==
  /\ (reqPc # "received" /\ ~QueryAllowed(query)) =>
       (status = 400 /\ ~handlerRan)
  /\ handlerRan =>
       /\ filters.dateRange \in DATE_SET
       /\ filters.borough \in BoroughLabels
       /\ filters.paymentType \in PaymentLabels
       /\ filters.timeOfDay \in TIME_SET
       /\ \A k \in 1..Len(sqlParams) :
            sqlParams[k] \in (BoroughLabels \cup PaymentLabels \cup TIME_SET) \ {JsNull}

====
